---- MODULE Spec2Model ----
(***************************************************************************)
(* Model of govee2mqtt-v2: the entity catalog builder and the              *)
(* synchronization loop of cli.py (addon-v2/app/src/govee2mqtt_v2).        *)
(*                                                                         *)
(* Text that the code inspects character by character (sku, device_type)  *)
(* is a sequence of one-character strings; text that the code only        *)
(* compares for equality (capability types, instances) is a TLA+ string.  *)
(* Payloads, entity suffixes and option names are sequences of tokens: a  *)
(* payload the code parses is spelled out in characters.  The common      *)
(* prefixes "devices.types." and "devices.capabilities." are left out of  *)
(* the literals.                                                          *)
(***************************************************************************)
EXTENDS Integers, Sequences, FiniteSets, TLC

VARIABLES
    devices,                    \* list returned by api.list_devices()
    capability_map,             \* device.device -> instance -> entity
    capability_options,         \* device.device -> instance -> option tables
    device_map,                 \* slug -> device
    unsupported_state_devices,  \* set of device.device
    command_queue,              \* queue.Queue of (device_id, entity, payload)
    once,                       \* args.once
    dry_run,                    \* args.dry_run
    advertised,                 \* advertisements given to mqtt.publish_discovery
    lifecycle,                  \* calls that create, connect or release the bus
                                \*   client and the vendor API client, in order
    returned,                   \* how main() ended ("" while it runs)
    pc,                         \* position of main()
    i,                          \* index of `device` in `for device in devices`
    cur,                        \* command handled by the current call of
                                \*   _handle_command, or by the call that just returned
    pending,                    \* capability mutations still to be sent for cur
    exc,                        \* exception that left the loop ("" when none)
    bus_out,                    \* messages the last loop step gave to mqtt.publish
    sweep,                      \* number of the current pass of `while True`
    nEnqueued,                  \* history: commands put on the queue so far
    handled,                    \* history: ids of the commands dequeued, in order
    owed,                       \* history: ids queued when the current device's turn
                                \*   began and not dequeued since
    calls,                      \* history: vendor API calls made for cur so far
    lastFetch,                  \* history: device and status of the scheduled fetch
                                \*   that the last loop step made
    rejected400,                \* history: devices whose scheduled fetch got HTTP 400
    polled,                     \* history: devices a scheduled fetch was issued
                                \*   for in the current sweep, in order
    interrupted,                \* history: where a KeyboardInterrupt hit the loop
    poll_interval,              \* config.poll_interval_seconds
    elapsed,                    \* `elapsed` of line 452 (zero until a sweep ends)
    sleep_time,                 \* `sleep_time` of line 453 (zero until a sweep ends)
    slept,                      \* history: the time.sleep call of the last loop step
    merge,                      \* history: the device and the scene capabilities of
                                \*   the last call of _merge_scene_options
    answered                    \* history: the device state that the messages of
                                \*   bus_out were published from

vars == <<devices, capability_map, capability_options, device_map,
          unsupported_state_devices, command_queue, once, dry_run, advertised,
          lifecycle, returned, pc, i, cur, pending, exc, bus_out, sweep,
          nEnqueued, handled, owed, calls, lastFetch, rejected400, polled,
          interrupted, merge, answered, poll_interval, elapsed, sleep_time, slept>>

-----------------------------------------------------------------------------
(* Bounds of the model *)

MaxCaps == 2        \* capabilities per generated device (catalog specification)
MaxOpts == 2        \* options per generated option list (catalog specification)
MaxDevices == 2     \* devices in the device list (loop specification)
MaxCmds == 2        \* commands enqueued in one behaviour
MaxSweeps == 2      \* passes of the `while True` loop in one behaviour

-----------------------------------------------------------------------------
(* Character-level text *)

\* str.lower(), on the letters the model's texts use
LowerChar(c) ==
    CASE c = "G" -> "g" [] c = "H" -> "h" [] c = "S" -> "s" [] c = "X" -> "x"
      [] c = "O" -> "o" [] c = "N" -> "n" [] c = "F" -> "f"
      [] OTHER -> c

\* str.upper(), on the letters the model's texts use
UpperChar(c) ==
    CASE c = "g" -> "G" [] c = "h" -> "H" [] c = "s" -> "S" [] c = "x" -> "X"
      [] c = "o" -> "O" [] c = "n" -> "N" [] c = "f" -> "F"
      [] OTHER -> c

Lower(s) == [k \in 1..Len(s) |-> LowerChar(s[k])]

Upper(s) == [k \in 1..Len(s) |-> UpperChar(s[k])]

\* `sub in s`
Contains(s, sub) ==
    \E k \in 0..(Len(s) - Len(sub)) : SubSeq(s, k + 1, k + Len(sub)) = sub

\* s.startswith(p)
StartsWith(s, p) == Len(s) >= Len(p) /\ SubSeq(s, 1, Len(p)) = p

-----------------------------------------------------------------------------
(* JSON values and json.dumps(value, sort_keys=True) *)

\* Python None where a text is expected (an option without a name)
None == <<"<None>">>

\* JSON null, and Python None where a value is expected
VNull == [t |-> "null", n |-> 0, s |-> <<>>, kv |-> <<>>]
VBool(b) == [t |-> "bool", n |-> b, s |-> <<>>, kv |-> <<>>]
VInt(n) == [t |-> "int", n |-> n, s |-> <<>>, kv |-> <<>>]
\* a float, in tenths: VFloat(375) is 37.5
VFloat(n) == [t |-> "float", n |-> n, s |-> <<>>, kv |-> <<>>]
VStr(s) == [t |-> "str", n |-> 0, s |-> s, kv |-> <<>>]
\* a dict, as its items in insertion order: <<key, integer>> pairs, keys distinct
VObj(kv) == [t |-> "obj", n |-> 0, s |-> <<>>, kv |-> kv]

\* the order sort_keys=True puts the model's keys in
KeyOrder == <<"a", "b", "brightness", "color_temp", "id">>

ItemText(item) == <<"\"", item[1], "\"", ":", ToString(item[2])>>

RECURSIVE JoinItems(_)
JoinItems(items) ==
    IF items = <<>> THEN <<>>
    ELSE IF Len(items) = 1 THEN ItemText(items[1])
    ELSE ItemText(items[1]) \o <<",">> \o JoinItems(Tail(items))

\* the items of a dict in key order
SortedItems(kv) ==
    LET present(k) == \E j \in 1..Len(kv) : kv[j][1] = k
        keys == SelectSeq(KeyOrder, present)
    IN  [k \in 1..Len(keys) |->
            kv[CHOOSE j \in 1..Len(kv) : kv[j][1] = keys[k]]]

\* json.dumps(value, sort_keys=sort_keys)
DumpsWith(value, sort_keys) ==
    CASE value.t = "null" -> <<"null">>
      [] value.t = "bool" -> IF value.n = 1 THEN <<"true">> ELSE <<"false">>
      [] value.t = "int" -> <<ToString(value.n)>>
      [] value.t = "float" ->
            <<ToString(value.n \div 10), ".", ToString(value.n % 10)>>
      [] value.t = "str" -> <<"\"">> \o value.s \o <<"\"">>
      [] OTHER -> <<"{">> \o JoinItems(IF sort_keys THEN SortedItems(value.kv) ELSE value.kv) \o <<"}">>

\* json.dumps(value): dict items in insertion order
DumpsPlain(value) == DumpsWith(value, FALSE)

\* json.dumps(value, sort_keys=True)
DumpsSorted(value) == DumpsWith(value, TRUE)

-----------------------------------------------------------------------------
(* Devices and capabilities (models.Device, models.Capability) *)

Cap(type, instance, dataType, options) ==
    [type |-> type, instance |-> instance,
     parameters |-> [dataType |-> dataType, options |-> options]]

Opt(name, value) == [name |-> name, value |-> value]

Dev(id, name, sku, device_type, capabilities) ==
    [device |-> id, name |-> name, sku |-> sku, device_type |-> device_type,
     capabilities |-> capabilities]

TypeLight == <<"l", "i", "g", "h", "t">>
TypeSocket == <<"s", "o", "c", "k", "e", "t">>
TypeSensor == <<"s", "e", "n", "s", "o", "r">>
TypeGroup == <<"G", "r", "o", "u", "p">>

\* hass.device_slug: a topic-safe name derived from device.name and device.device
device_slug(device) == <<"slug", device.name, device.device>>

\* the capabilities a light entity surfaces itself (cli.py, the light exclude set)
LightPairs ==
    { <<"on_off", "powerSwitch">>, <<"range", "brightness">>,
      <<"color_setting", "colorRgb">>, <<"color_setting", "colorTemperatureK">> }

\* the capability a switch entity surfaces itself
SwitchPairs == { <<"on_off", "powerSwitch">> }

HasPair(device, pairs) ==
    \E k \in 1..Len(device.capabilities) :
        <<device.capabilities[k].type, device.capabilities[k].instance>> \in pairs

\* hass.is_light: from the device-type tag and the light capabilities
is_light(device) ==
    \/ device.device_type = TypeLight
    \/ HasPair(device, LightPairs \ SwitchPairs)

\* hass.is_switch: from the device-type tag and the power capability
is_switch(device) ==
    /\ ~is_light(device)
    /\ device.device_type = TypeSocket
    /\ HasPair(device, SwitchPairs)

\* the instances hass.sensor_entities surfaces as sensor / binary_sensor
SensorInstances == {"temperature"}
BinarySensorInstances == {"lackWaterEvent"}

\* hass.sensor_entities: one entity per capability whose instance is a sensor's
sensor_entities(device) ==
    LET isSensor(cap) == cap.instance \in SensorInstances \cup BinarySensorInstances
        caps == SelectSeq(device.capabilities, isSensor)
    IN  [k \in 1..Len(caps) |->
            [instance |-> caps[k].instance,
             binary |-> caps[k].instance \in BinarySensorInstances]]

\* the data-type tags the classifier maps to a kind of their own; "" is a
\* capability without dataType
RecognizedDataTypes == {"ENUM", "INTEGER", "STRUCT"}

\* the entity kind taken from the capability type before the data-type is
\* looked at
EntityKindByTypeFirst(cap) ==
    IF cap.type \in {"on_off", "toggle"} THEN "switch"
    ELSE IF cap.parameters.dataType = "INTEGER" THEN "number"
    ELSE IF cap.parameters.dataType = "ENUM" THEN "select"
    ELSE "text"

\* hass.capability_entities: the entity kind of one capability; a missing or
\* unrecognized data-type defaults to text
EntityKind(cap) ==
    IF cap.parameters.dataType \notin RecognizedDataTypes THEN "text"
    ELSE IF cap.type \in {"on_off", "toggle"} THEN "switch"
    ELSE IF cap.parameters.dataType = "INTEGER" THEN "number"
    ELSE IF cap.parameters.dataType = "ENUM" THEN "select"
    ELSE "text"

OptionNames(options) ==
    LET named(opt) == opt.name # None
        kept == SelectSeq(options, named)
    IN  [k \in 1..Len(kept) |-> kept[k].name]

\* hass.capability_entities(device, exclude): one entity per capability whose
\* instance no excluded (type, instance) pair names, in capability order
capability_entities(device, exclude) ==
    LET excluded_instances == {pair[2] : pair \in exclude}
        kept(cap) == cap.instance \notin excluded_instances
        caps == SelectSeq(device.capabilities, kept)
    IN  [k \in 1..Len(caps) |->
            [instance |-> caps[k].instance,
             entity_type |-> EntityKind(caps[k]),
             capability_type |-> caps[k].type,
             options |-> OptionNames(caps[k].parameters.options),
             option_values |-> caps[k].parameters.options]]

-----------------------------------------------------------------------------
(* cli.py: _state_supported, _build_capability_maps *)

\* _state_supported with the device type compared without .lower()
StateSupportedCaseSensitive(device) ==
    IF device.capabilities = <<>> THEN FALSE
    ELSE IF /\ device.device_type # <<>>
            /\ \/ Contains(device.device_type, <<"g", "r", "o", "u", "p">>)
               \/ Contains(device.device_type, <<"s", "c", "e", "n", "e">>)
         THEN FALSE
    ELSE IF device.sku # <<>> /\ ~StartsWith(Upper(device.sku), <<"H">>) THEN FALSE
    ELSE TRUE

\* _state_supported(device); an empty text is Python's falsy sku / device_type
_state_supported(device) ==
    IF device.capabilities = <<>> THEN FALSE
    ELSE IF /\ device.device_type # <<>>
            /\ \/ Contains(Lower(device.device_type), <<"g", "r", "o", "u", "p">>)
               \/ Contains(Lower(device.device_type), <<"s", "c", "e", "n", "e">>)
         THEN FALSE
    ELSE IF device.sku # <<>> /\ ~StartsWith(Upper(device.sku), <<"H">>) THEN FALSE
    ELSE TRUE

\* the exclude set without the pass over the sensor instances
SensorExcludeSkipped(device) == {}

\* the pairs lines 79-82 add to the exclude set of one device
SensorExclude(device) ==
    LET sensor_instances ==
            {sensor_entities(device)[k].instance :
                k \in 1..Len(sensor_entities(device))}
    IN  { <<device.capabilities[k].type, device.capabilities[k].instance>> :
            k \in {j \in 1..Len(device.capabilities) :
                      device.capabilities[j].instance \in sensor_instances} }

\* the exclude set of one device: lines 66-82
ExcludeSet(device) ==
    (IF is_light(device) THEN LightPairs
     ELSE IF is_switch(device) THEN SwitchPairs
     ELSE {})
    \cup SensorExclude(device)

\* the index of the last element of keys that is key (0: none is); a
\* Python dict built by assignments in list order keeps the last value of a key
LastIndex(keys, key) ==
    IF \E k \in 1..Len(keys) : keys[k] = key
    THEN CHOOSE k \in 1..Len(keys) :
            keys[k] = key /\ \A j \in (k + 1)..Len(keys) : keys[j] # key
    ELSE 0

\* the key without sort_keys: dict items in insertion order
OptionKeyUnsorted(value) == DumpsPlain(value)

\* the key of value_to_name: line 99
OptionKey(value) == DumpsSorted(value)

\* the key a raw state value is looked up by: line 195
ValueKey(value) == DumpsSorted(value)

\* name_to_value and value_to_name of one select entity: lines 91-103
OptionTable(entity) ==
    LET opts == SelectSeq(entity.option_values, LAMBDA opt : opt.name # None)
        names == {opts[k].name : k \in 1..Len(opts)}
        keys == {OptionKey(opts[k].value) : k \in 1..Len(opts)}
    IN  [name_to_value |->
            [nm \in names |->
                opts[LastIndex([k \in 1..Len(opts) |-> opts[k].name], nm)].value],
         value_to_name |->
            [ky \in keys |->
                opts[LastIndex([k \in 1..Len(opts) |-> OptionKey(opts[k].value)], ky)].name]]

\* {entity["instance"]: entity for entity in entities}: line 86
CatalogOf(device) ==
    LET entities == capability_entities(device, ExcludeSet(device))
        instances == {entities[k].instance : k \in 1..Len(entities)}
    IN  [inst \in instances |->
            entities[LastIndex([k \in 1..Len(entities) |-> entities[k].instance], inst)]]

\* option_map of one device: lines 87-104
OptionMapOf(device) ==
    LET catalog == CatalogOf(device)
        selects == {inst \in DOMAIN catalog : catalog[inst].entity_type = "select"}
    IN  [inst \in selects |-> OptionTable(catalog[inst])]

DeviceIds(devs) == {devs[k].device : k \in 1..Len(devs)}

\* _build_capability_maps(devices): both results, keyed by device.device
_build_capability_maps(devs) ==
    [capability_map |->
        [id \in DeviceIds(devs) |->
            CatalogOf(devs[LastIndex([k \in 1..Len(devs) |-> devs[k].device], id)])],
     capability_options |->
        [id \in DeviceIds(devs) |->
            OptionMapOf(devs[LastIndex([k \in 1..Len(devs) |-> devs[k].device], id)])]]

\* dict.get(key) of a dict of values: None (VNull) for a missing key
Get(map, key) == IF key \in DOMAIN map THEN map[key] ELSE VNull

-----------------------------------------------------------------------------
(* Payload parsing: int(), float(), str.strip(), json.loads() *)

Digits == {"0", "1", "2", "3", "4", "5", "6", "7", "8", "9"}

DigitVal(c) ==
    CASE c = "0" -> 0 [] c = "1" -> 1 [] c = "2" -> 2 [] c = "3" -> 3
      [] c = "4" -> 4 [] c = "5" -> 5 [] c = "6" -> 6 [] c = "7" -> 7
      [] c = "8" -> 8 [] OTHER -> 9

IsDigits(s) == s # <<>> /\ \A k \in 1..Len(s) : s[k] \in Digits

RECURSIVE IntOf(_)
IntOf(s) ==
    IF s = <<>> THEN 0
    ELSE 10 * IntOf(SubSeq(s, 1, Len(s) - 1)) + DigitVal(s[Len(s)])

\* int(payload) succeeds (decimal digits; the model's payloads carry no sign)
IntParses(payload) == IsDigits(payload)

\* float(payload) succeeds: digits, or digits "." one digit
FloatParses(payload) ==
    \/ IsDigits(payload)
    \/ /\ Len(payload) >= 3
       /\ payload[Len(payload) - 1] = "."
       /\ IsDigits(SubSeq(payload, 1, Len(payload) - 2))
       /\ payload[Len(payload)] \in Digits

\* float(payload), in tenths
FloatOf(payload) ==
    IF IsDigits(payload) THEN 10 * IntOf(payload)
    ELSE 10 * IntOf(SubSeq(payload, 1, Len(payload) - 2))
            + DigitVal(payload[Len(payload)])

RECURSIVE Strip(_)
\* payload.strip()
Strip(s) ==
    IF s = <<>> THEN s
    ELSE IF Head(s) = " " THEN Strip(Tail(s))
    ELSE IF s[Len(s)] = " " THEN Strip(SubSeq(s, 1, Len(s) - 1))
    ELSE s

\* the JSON documents the model's payloads can spell
JsonPool ==
    { VObj(<<>>), VObj(<<<<"brightness", 5>>>>),
      VObj(<<<<"color_temp", 3>>, <<"brightness", 5>>>>),
      VObj(<<<<"id", 1>>>>), VInt(7), VNull }

\* json.loads(payload) raises JSONDecodeError
JsonFails(payload) == \A v \in JsonPool : DumpsPlain(v) # payload

\* json.loads(payload): the document whose text payload is
JsonLoads(payload) == CHOOSE v \in JsonPool : DumpsPlain(v) = payload

-----------------------------------------------------------------------------
(* Commands and their translation (cli.py: _handle_command, lines 216-299) *)

Mutation(capability_type, instance, value) ==
    [capability_type |-> capability_type, instance |-> instance, value |-> value]

\* hass.light_command_to_capabilities(data): one mutation per recognised key
light_command_to_capabilities(data) ==
    LET has(k) == \E j \in 1..Len(data.kv) : data.kv[j][1] = k
        val(k) == data.kv[CHOOSE j \in 1..Len(data.kv) : data.kv[j][1] = k][2]
    IN  (IF has("brightness")
         THEN <<Mutation("range", "brightness", VInt(val("brightness")))>>
         ELSE <<>>)
        \o
        (IF has("color_temp")
         THEN <<Mutation("color_setting", "colorTemperatureK", VInt(val("color_temp")))>>
         ELSE <<>>)

\* the comparison of a switch payload with "ON": line 262
IsOn(payload) == Upper(Strip(payload)) = <<"O", "N">>

\* hass.switch_command_to_capabilities(payload)
switch_command_to_capabilities(payload) ==
    <<Mutation("on_off", "powerSwitch", VInt(IF IsOn(payload) THEN 1 ELSE 0))>>

\* what the translation of a command ends in
Return == [outcome |-> "return", muts |-> <<>>]
Raise(exception) == [outcome |-> exception, muts |-> <<>>]
Proceed(muts) == [outcome |-> "proceed", muts |-> muts]

\* entity.removeprefix("cap_")
CapInstance(entity) == IF Len(entity) >= 2 THEN entity[2] ELSE ""

\* the lookup falling back to the first option's value for an unknown name
SelectValueOrFirst(options, payload) ==
    IF "name_to_value" \notin DOMAIN options THEN VNull
    ELSE IF payload \in DOMAIN options.name_to_value
    THEN options.name_to_value[payload]
    ELSE IF DOMAIN options.name_to_value = {} THEN VNull
    ELSE options.name_to_value[CHOOSE nm \in DOMAIN options.name_to_value : TRUE]

\* the value looked up for a select payload: line 270
SelectValue(options, payload) ==
    IF "name_to_value" \in DOMAIN options
    THEN Get(options.name_to_value, payload)
    ELSE VNull

\* the cap_<instance> branch: lines 252-289, up to the mutation request
TranslateCapability(device, entity, payload) ==
    LET instance == CapInstance(entity)
        cap_entities ==
            IF device.device \in DOMAIN capability_map
            THEN capability_map[device.device] ELSE <<>>
    IN  IF instance \notin DOMAIN cap_entities THEN Return
        ELSE
        LET cap_entity == cap_entities[instance]
            entity_type == cap_entity.entity_type
            send(value) ==
                Proceed(<<Mutation(cap_entity.capability_type, instance, value)>>)
            device_options ==
                IF device.device \in DOMAIN capability_options
                THEN capability_options[device.device] ELSE <<>>
            options ==
                IF instance \in DOMAIN device_options
                THEN device_options[instance] ELSE <<>>
        IN  CASE entity_type = "switch" ->
                    send(VInt(IF IsOn(payload) THEN 1 ELSE 0))
              [] entity_type = "number" ->
                    IF IntParses(payload) THEN send(VInt(IntOf(payload)))
                    ELSE IF FloatParses(payload) THEN send(VFloat(FloatOf(payload)))
                    ELSE Raise("ValueError")
              [] entity_type = "select" ->
                    IF SelectValue(options, payload) = VNull THEN Return
                    ELSE send(SelectValue(options, payload))
              [] entity_type = "text" ->
                    IF JsonFails(payload) THEN send(VStr(payload))
                    ELSE send(JsonLoads(payload))
              [] OTHER -> Return

\* _handle_command up to its first vendor API call: lines 216-299
Translate(command) ==
    IF command.device_id \notin DOMAIN device_map THEN Return
    ELSE
    LET device == device_map[command.device_id]
    IN  IF command.entity = <<"light">> THEN
            IF command.payload = <<>> THEN Proceed(<<>>)
            ELSE IF JsonFails(command.payload) THEN Return
            ELSE Proceed(light_command_to_capabilities(JsonLoads(command.payload)))
        ELSE IF command.entity = <<"switch">> THEN
            Proceed(switch_command_to_capabilities(command.payload))
        ELSE IF StartsWith(command.entity, <<"cap_">>) THEN
            TranslateCapability(device, command.entity, command.payload)
        ELSE Return

-----------------------------------------------------------------------------
(* Topics, state publishing (cli.py: _publish_state) and advertisements     *)
(* (discovery.py).  A topic is the sequence of its "/"-separated levels; a  *)
(* level built by an f-string from several parts is the sequence of them.   *)

\* config.mqtt_base_topic
BaseTopic == "govee2mqtt_v2"

\* DISCOVERY_PREFIX: discovery.py line 9
DISCOVERY_PREFIX == "homeassistant"

\* f"{base_topic}/{slug}/<entity>/<leaf>"
RuntimeTopic(base_topic, slug, entity, leaf) == <<base_topic, slug, entity, leaf>>

\* the entity level f"cap_{instance}"
CapSuffix(instance) == <<"cap_", instance>>

\* a DeviceState: the device it is of and its (instance, state_value) list
StateCap(instance, state_value) == [instance |-> instance, state_value |-> state_value]

DeviceState(device, capabilities) ==
    [device |-> device, capabilities |-> capabilities]

\* Python truthiness of a value
Truthy(value) ==
    CASE value.t = "null" -> FALSE
      [] value.t \in {"bool", "int", "float"} -> value.n # 0
      [] value.t = "str" -> value.s # <<>>
      [] OTHER -> value.kv # <<>>

\* the repr() of the items of a dict, as str(dict) joins them
RECURSIVE ReprItems(_)
ReprItems(items) ==
    IF items = <<>> THEN <<>>
    ELSE <<"'", items[1][1], "'", ": ", ToString(items[1][2])>>
         \o (IF Len(items) = 1 THEN <<>> ELSE <<", ">> \o ReprItems(Tail(items)))

\* str(value)
PyStr(value) ==
    CASE value.t = "null" -> <<"None">>
      [] value.t = "bool" -> IF value.n = 1 THEN <<"True">> ELSE <<"False">>
      [] value.t = "int" -> <<ToString(value.n)>>
      [] value.t = "float" ->
            <<ToString(value.n \div 10), ".", ToString(value.n % 10)>>
      [] value.t = "str" -> value.s
      [] OTHER -> <<"{">> \o ReprItems(value.kv) \o <<"}">>

\* no device state has been published
NoState == DeviceState("", <<>>)

\* a message handed to mqtt.publish
Publication(topic, payload) == [topic |-> topic, payload |-> payload]

LightStateInstances == {"powerSwitch", "brightness", "colorRgb", "colorTemperatureK"}

\* the state capabilities that have a value and whose instance is in instances
ValuedCaps(state, instances) ==
    SelectSeq(state.capabilities,
              LAMBDA cap : cap.instance \in instances /\ cap.state_value # VNull)

\* hass.light_state_from_device_state: the JSON state of the light entity,
\* empty (falsy) when the state has no value for it
light_state_from_device_state(state) ==
    LET caps == ValuedCaps(state, LightStateInstances)
    IN  VObj([k \in 1..Len(caps) |-> <<caps[k].instance, caps[k].state_value.n>>])

\* hass.switch_state_from_device_state: "ON"/"OFF", None without a power value
switch_state_from_device_state(state) ==
    LET caps == ValuedCaps(state, {"powerSwitch"})
    IN  IF caps = <<>> THEN VNull
        ELSE VStr(IF Truthy(caps[1].state_value) THEN <<"ON">> ELSE <<"OFF">>)

\* hass.sensor_state_from_device_state: the sensor instances' values, empty
\* (falsy) when the state has none
sensor_state_from_device_state(state) ==
    LET caps == ValuedCaps(state, SensorInstances \cup BinarySensorInstances)
    IN  VObj([k \in 1..Len(caps) |-> <<caps[k].instance, caps[k].state_value.n>>])

\* the payload of a text entity: line 200
TextPayload(value) ==
    IF value.t = "obj" THEN VStr(DumpsPlain(value)) ELSE VStr(PyStr(value))

\* the payload of a select entity: lines 195-198
SelectPayload(options, value) ==
    IF "value_to_name" \in DOMAIN options
          /\ ValueKey(value) \in DOMAIN options.value_to_name
    THEN VStr(options.value_to_name[ValueKey(value)])
    ELSE VStr(PyStr(value))

\* the payload of one generic entity, None (VNull) where line 202 continues
CapPayload(entity, options, value) ==
    CASE entity.entity_type = "switch" ->
            VStr(IF Truthy(value) THEN <<"ON">> ELSE <<"OFF">>)
      [] entity.entity_type = "number" -> value
      [] entity.entity_type = "select" -> SelectPayload(options, value)
      [] entity.entity_type = "text" -> TextPayload(value)
      [] OTHER -> VNull

\* a test of the state value by truthiness
HasValueTruthy(value) == Truthy(value)

\* `if value is None: continue` negated: line 186
HasValue(value) == value # VNull

\* a state publisher that leaves the generic capability entities out
PublishCapabilitiesNone(base_topic, device, state, cmap, copts) == <<>>

\* the generic part of _publish_state: lines 175-204
PublishCapabilities(base_topic, device, state, cmap, copts) ==
    LET cap_entities == IF device.device \in DOMAIN cmap THEN cmap[device.device] ELSE <<>>
        options_map == IF device.device \in DOMAIN copts THEN copts[device.device] ELSE <<>>
        options(inst) == IF inst \in DOMAIN options_map THEN options_map[inst] ELSE <<>>
        sent(cap) ==
            /\ cap.instance \in DOMAIN cap_entities
            /\ HasValue(cap.state_value)
            /\ cap_entities[cap.instance].entity_type
                  \in {"switch", "number", "select", "text"}
        caps == SelectSeq(state.capabilities, sent)
    IN  [k \in 1..Len(caps) |->
            Publication(
                RuntimeTopic(base_topic, device_slug(device),
                             CapSuffix(caps[k].instance), "state"),
                CapPayload(cap_entities[caps[k].instance],
                           options(caps[k].instance), caps[k].state_value))]

\* _publish_state: the messages it publishes, in order (lines 161-204)
_publish_state(base_topic, device, state, cmap, copts) ==
    LET slug == device_slug(device)
    IN  (IF is_light(device)
         THEN IF Truthy(light_state_from_device_state(state))
              THEN <<Publication(RuntimeTopic(base_topic, slug, <<"light">>, "state"),
                                 light_state_from_device_state(state))>>
              ELSE <<>>
         ELSE IF is_switch(device)
              THEN IF switch_state_from_device_state(state) # VNull
                   THEN <<Publication(
                            RuntimeTopic(base_topic, slug, <<"switch">>, "state"),
                            switch_state_from_device_state(state))>>
                   ELSE <<>>
              ELSE <<>>)
        \o
        (IF Truthy(sensor_state_from_device_state(state))
         THEN <<Publication(RuntimeTopic(base_topic, slug, <<"sensor">>, "state"),
                            sensor_state_from_device_state(state))>>
         ELSE <<>>)
        \o PublishCapabilities(base_topic, device, state, cmap, copts)

\* no topic: a descriptor without a command topic
NoTopic == <<>>

\* an advertisement: discovery topic and the descriptor fields that name topics
Advertisement(device, kind, suffix, topic, object_id, state_topic, command_topic) ==
    [device |-> device, kind |-> kind, suffix |-> suffix, topic |-> topic,
     object_id |-> object_id, state_topic |-> state_topic,
     command_topic |-> command_topic]

\* f"{DISCOVERY_PREFIX}/{entity_kind}/{object_id}/config"
DiscoveryTopic(kind, object_id) == <<DISCOVERY_PREFIX, kind, object_id, "config">>

\* light_discovery_payload: discovery.py lines 22-45
light_discovery_payload(device, base_topic) ==
    LET slug == device_slug(device)
        object_id == <<slug, "_light">>
    IN  Advertisement(device.device, "light", <<"light">>,
                      DiscoveryTopic("light", object_id), <<>>,
                      RuntimeTopic(base_topic, slug, <<"light">>, "state"),
                      RuntimeTopic(base_topic, slug, <<"light">>, "set"))

\* switch_discovery_payload: discovery.py lines 48-62
switch_discovery_payload(device, base_topic) ==
    LET slug == device_slug(device)
        object_id == <<slug, "_switch">>
    IN  Advertisement(device.device, "switch", <<"switch">>,
                      DiscoveryTopic("switch", object_id), <<>>,
                      RuntimeTopic(base_topic, slug, <<"switch">>, "state"),
                      RuntimeTopic(base_topic, slug, <<"switch">>, "set"))

\* sensor_discovery_payloads: discovery.py lines 65-95
sensor_discovery_payloads(device, base_topic) ==
    LET slug == device_slug(device)
        entities == sensor_entities(device)
    IN  [k \in 1..Len(entities) |->
            Advertisement(device.device,
                          IF entities[k].binary THEN "binary_sensor" ELSE "sensor",
                          <<"sensor", entities[k].instance>>,
                          DiscoveryTopic(
                              IF entities[k].binary THEN "binary_sensor" ELSE "sensor",
                              <<slug, "_", entities[k].instance>>),
                          <<>>,
                          RuntimeTopic(base_topic, slug, <<"sensor">>, "state"),
                          NoTopic)]

\* the advertisement kind fixed to "sensor" instead of the entity's own kind
CapabilityKindFixed(entity) == "sensor"

\* the entity kind level of a capability advertisement: discovery.py lines 105, 111
CapabilityKind(entity) == entity.entity_type

\* capability advertisements whose runtime topics name the bare instance
\* instead of cap_<instance>
CapabilityPayloadsBareInstance(device, base_topic, entities) ==
    LET slug == device_slug(device)
    IN  [k \in 1..Len(entities) |->
            Advertisement(device.device, CapabilityKind(entities[k]),
                          CapSuffix(entities[k].instance),
                          DiscoveryTopic(CapabilityKind(entities[k]),
                                         <<slug, "_cap_", entities[k].instance>>),
                          <<slug, "_cap_", entities[k].instance>>,
                          RuntimeTopic(base_topic, slug,
                                       <<entities[k].instance>>, "state"),
                          RuntimeTopic(base_topic, slug,
                                       <<entities[k].instance>>, "set"))]

\* capability_discovery_payloads: discovery.py lines 98-152
capability_discovery_payloads(device, base_topic, entities) ==
    LET slug == device_slug(device)
    IN  [k \in 1..Len(entities) |->
            Advertisement(device.device, CapabilityKind(entities[k]),
                          CapSuffix(entities[k].instance),
                          DiscoveryTopic(CapabilityKind(entities[k]),
                                         <<slug, "_cap_", entities[k].instance>>),
                          <<slug, "_cap_", entities[k].instance>>,
                          RuntimeTopic(base_topic, slug,
                                       CapSuffix(entities[k].instance), "state"),
                          RuntimeTopic(base_topic, slug,
                                       CapSuffix(entities[k].instance), "set"))]

\* list(capability_map.get(device.device, {}).values()): the entities of the
\* catalog in the insertion order of their instances (cli.py line 147)
CatalogValues(device, cmap) ==
    LET catalog == IF device.device \in DOMAIN cmap THEN cmap[device.device] ELSE <<>>
        caps == device.capabilities
        first(k) == /\ caps[k].instance \in DOMAIN catalog
                    /\ \A j \in 1..(k - 1) : caps[j].instance # caps[k].instance
        order == SelectSeq([k \in 1..Len(caps) |-> k], first)
    IN  [k \in 1..Len(order) |-> catalog[caps[order[k]].instance]]

\* the advertisements _publish_discovery publishes for one device, in order:
\* cli.py lines 136-150
DeviceDiscovery(device, base_topic, cmap) ==
    (IF is_light(device) THEN <<light_discovery_payload(device, base_topic)>>
     ELSE IF is_switch(device) THEN <<switch_discovery_payload(device, base_topic)>>
     ELSE <<>>)
    \o sensor_discovery_payloads(device, base_topic)
    \o capability_discovery_payloads(device, base_topic, CatalogValues(device, cmap))

\* _publish_discovery: cli.py lines 129-150
RECURSIVE _publish_discovery(_, _, _)
_publish_discovery(base_topic, devs, cmap) ==
    IF devs = <<>> THEN <<>>
    ELSE DeviceDiscovery(Head(devs), base_topic, cmap)
         \o _publish_discovery(base_topic, Tail(devs), cmap)

-----------------------------------------------------------------------------
(* Inputs of the loop specification: device lists and inbound commands *)

SceneOptions ==
    <<Opt(<<"Sunrise">>, VObj(<<<<"id", 1>>>>)), Opt(<<"Off">>, VInt(0))>>

Lamp ==
    Dev("AA", "lamp", <<"H", "6">>, TypeLight,
        <<Cap("on_off", "powerSwitch", "ENUM", <<>>),
          Cap("range", "brightness", "INTEGER", <<>>),
          Cap("dynamic_scene", "lightScene", "ENUM", SceneOptions),
          Cap("range", "volume", "INTEGER", <<>>),
          Cap("music_setting", "musicMode", "STRUCT", <<>>)>>)

Plug ==
    Dev("BB", "plug", <<"h", "5">>, TypeSocket,
        <<Cap("on_off", "powerSwitch", "ENUM", <<>>)>>)

Group ==
    Dev("CC", "group", <<"H", "9">>, TypeGroup,
        <<Cap("on_off", "powerSwitch", "ENUM", <<>>)>>)

DevicePool == {Lamp, Plug, Group}

\* the lists of at most n distinct devices of the pool
RECURSIVE ListsUpTo(_)
ListsUpTo(n) ==
    IF n = 0 THEN { <<>> }
    ELSE ListsUpTo(n - 1) \cup
         { Append(l, d) : l \in {m \in ListsUpTo(n - 1) : Len(m) = n - 1},
                          d \in DevicePool }

DeviceLists ==
    { l \in ListsUpTo(MaxDevices) :
        \A j, k \in 1..Len(l) : j # k => l[j] # l[k] }

Cmd(device_id, entity, payload) ==
    [device_id |-> device_id, entity |-> entity, payload |-> payload]

\* the commands of the sweep specification: one that sends two mutation
\* requests, one for another device, one that the handler rejects
SweepCommands ==
    { Cmd(device_slug(Lamp), <<"light">>,
          DumpsPlain(VObj(<<<<"color_temp", 3>>, <<"brightness", 5>>>>))),
      Cmd(device_slug(Plug), <<"switch">>, <<" ", "o", "n">>),
      Cmd(device_slug(Lamp), <<"cap_", "lightScene">>, <<"Moonrise">>) }

\* what a bus message on <base_topic>/<device_id>/<entity>/set can carry
CommandPool ==
    { Cmd(device_slug(Lamp), <<"light">>,
          DumpsPlain(VObj(<<<<"color_temp", 3>>, <<"brightness", 5>>>>))),
      Cmd(device_slug(Plug), <<"switch">>, <<" ", "o", "n">>),
      Cmd(device_slug(Lamp), <<"cap_", "volume">>, <<"a", "b", "c">>),
      Cmd(device_slug(Lamp), <<"cap_", "volume">>, <<"7", ".", "5">>),
      Cmd(device_slug(Lamp), <<"cap_", "lightScene">>, <<"Sunrise">>),
      Cmd(device_slug(Lamp), <<"cap_", "lightScene">>, <<"Moonrise">>),
      Cmd(device_slug(Lamp), <<"cap_", "nope">>, <<"1">>),
      Cmd(device_slug(Lamp), <<"bogus">>, <<"x">>) }

\* no command is being handled
NoCmd == [id |-> 0, device_id |-> <<>>, entity |-> <<>>, payload |-> <<>>]

\* HTTP statuses of a vendor API response
OkStatus == 200
ErrorStatuses == {400, 404, 500}
ClientErrorStatuses == {s \in ErrorStatuses : s >= 400 /\ s < 500}
Statuses == {OkStatus} \cup ErrorStatuses

\* the test comparing with 404 instead
StickyStatusNotFound(status) == status = 404

\* the test accepting every client-error status
StickyStatusAnyClientError(status) == status >= 400 /\ status < 500

\* the status an httpx.HTTPStatusError of a scheduled fetch must carry for the
\* device to be excluded from polling: line 430
StickyStatus(status) == status = 400

\* device_map = {device_slug(device): device for device in devices}: line 393
DeviceMapOf(devs) ==
    LET slugs == {device_slug(devs[k]) : k \in 1..Len(devs)}
    IN  [sl \in slugs |->
            devs[LastIndex([k \in 1..Len(devs) |-> device_slug(devs[k])], sl)]]

\* the unsupported set after lines 394-398
InitialUnsupported(devs) ==
    {devs[k].device : k \in {j \in 1..Len(devs) : ~_state_supported(devs[j])}}

NoFetch == [device |-> "", status |-> 0]

\* a duration in seconds, as the fraction <<numerator, denominator>>
Frac(n, d) == <<n, d>>

FracLess(a, b) == a[1] * b[2] < b[1] * a[2]

FracEq(a, b) == a[1] * b[2] = b[1] * a[2]

\* max(a, b) of two floats: b only when it is the greater
FracMax(a, b) == IF FracLess(a, b) THEN b ELSE a

FracAdd(a, b) == <<a[1] * b[2] + b[1] * a[2], a[2] * b[2]>>

FracSub(a, b) == <<a[1] * b[2] - b[1] * a[2], a[2] * b[2]>>

\* the truth value of a float: `if sleep_time:`, line 454
FracTruthy(a) == a[1] # 0

NoTime == Frac(0, 1)

\* no sleep was taken by the last loop step
NoSleep == [at |-> "", seconds |-> NoTime]

\* max(1, len(devices)): line 447
DeviceCount(devs) == IF Len(devs) < 1 THEN 1 ELSE Len(devs)

\* max(1.0, config.poll_interval_seconds / max(1, len(devices))): line 447
PaceTime(interval, devs) ==
    FracMax(Frac(1, 1), Frac(interval, DeviceCount(devs)))

\* max(0.0, config.poll_interval_seconds - elapsed): line 453
SleepTime(interval, elapsed_time) ==
    FracMax(NoTime, FracSub(Frac(interval, 1), elapsed_time))

\* the time a sweep can take apart from the sleep of its last step
Spent == {NoTime, Frac(poll_interval, 1)}

\* no call of _merge_scene_options was made
NoMerge == [before |-> <<>>, scene_caps |-> <<>>, at |-> 0]

\* no KeyboardInterrupt has been raised
NoInterrupt == [at |-> "", queued |-> {}, handling |-> 0]

\* what api.get_device_state answers for the devices of the pool; the lamp's
\* musicMode has no value
LoopStates ==
    { DeviceState("AA", <<StateCap("powerSwitch", VInt(1)),
                          StateCap("brightness", VInt(5)),
                          StateCap("lightScene", VObj(<<<<"id", 1>>>>)),
                          StateCap("volume", VInt(7)),
                          StateCap("musicMode", VNull)>>),
      DeviceState("BB", <<StateCap("powerSwitch", VInt(0))>>),
      DeviceState("CC", <<StateCap("powerSwitch", VInt(1))>>) }

\* the calls main() has made on the two clients when it enters the loop:
\* lines 330, 377-391
ClientsConnected ==
    <<"GoveeApiClient", "MqttClient", "set_command_handler", "connect">>

-----------------------------------------------------------------------------
(* The synchronization loop: main(), lines 402-460 *)

\* the state at line 402, for a device list and the --once flag
LoopEntryWith(devs, onceFlag, interval) ==
    /\ devices = devs
    /\ once = onceFlag
    /\ poll_interval = interval
    /\ capability_map = _build_capability_maps(devs).capability_map
    /\ capability_options = _build_capability_maps(devs).capability_options
    /\ device_map = DeviceMapOf(devs)
    /\ unsupported_state_devices = InitialUnsupported(devs)
    /\ command_queue = <<>>
    /\ pc = "sweep_start"
    /\ i = 0
    /\ cur = NoCmd
    /\ pending = <<>>
    /\ exc = ""
    /\ bus_out = <<>>
    /\ answered = NoState
    /\ sweep = 0
    /\ nEnqueued = 0
    /\ handled = <<>>
    /\ owed = {}
    /\ calls = <<>>
    /\ lastFetch = NoFetch
    /\ rejected400 = {}
    /\ dry_run = FALSE
    /\ advertised =
          _publish_discovery(BaseTopic, devs,
                             _build_capability_maps(devs).capability_map)
    /\ lifecycle = ClientsConnected
    /\ returned = ""
    /\ polled = <<>>
    /\ interrupted = NoInterrupt
    /\ merge = NoMerge
    /\ elapsed = NoTime
    /\ sleep_time = NoTime
    /\ slept = NoSleep

\* the state at line 402 with a poll interval of 3 seconds
LoopEntry(devs, onceFlag) == LoopEntryWith(devs, onceFlag, 3)

Init == \E devs \in DeviceLists : LoopEntry(devs, FALSE)

config ==
    <<devices, capability_map, capability_options, device_map, once, dry_run,
      advertised, poll_interval>>

\* what only the end of main() and the history steps assign
quiet == <<lifecycle, returned, polled, interrupted, merge>>

\* the timing of a sweep
clock == <<elapsed, sleep_time, slept>>

QueuedIds == {command_queue[k].id : k \in 1..Len(command_queue)}

\* a callback that acts on the command in its own context: it calls the
\* vendor API before it puts the command on the queue
EnqueueActing(c) ==
    /\ pc \notin {"startup", "built", "exited"}
    /\ nEnqueued < MaxCmds
    /\ command_queue' =
          Append(command_queue,
                 [id |-> nEnqueued + 1, device_id |-> c.device_id,
                  entity |-> c.entity, payload |-> c.payload])
    /\ nEnqueued' = nEnqueued + 1
    /\ calls' = Append(calls, [op |-> "control_device", device |-> "",
                               capability_type |-> "", instance |-> "",
                               value |-> VNull, ok |-> TRUE])
    /\ UNCHANGED <<clock, config, quiet, unsupported_state_devices, pc, i, cur,
                   pending, exc, bus_out, answered, sweep, handled, owed,
                   lastFetch, rejected400>>

\* _enqueue_command, run by the bus client's callback: lines 387-388
Enqueue(c) ==
    /\ pc \notin {"startup", "built", "exited"}
    /\ nEnqueued < MaxCmds
    /\ command_queue' =
          Append(command_queue,
                 [id |-> nEnqueued + 1, device_id |-> c.device_id,
                  entity |-> c.entity, payload |-> c.payload])
    /\ nEnqueued' = nEnqueued + 1
    /\ UNCHANGED <<clock, config, quiet, unsupported_state_devices, pc, i, cur, pending, exc,
                   bus_out, answered, sweep, handled, owed, calls, lastFetch, rejected400>>

\* `while True:` and the start of `for device in devices`, as pass number n
\* of the loop: lines 403-405
SweepBegins(n) ==
    /\ pc = "sweep_start"
    /\ sweep' = n
    /\ IF devices = <<>>
       THEN /\ pc' = "sweep_end"
            /\ UNCHANGED <<i, owed>>
       ELSE /\ pc' = "drain"
            /\ i' = 1
            /\ owed' = QueuedIds
    /\ bus_out' = <<>>
    /\ answered' = NoState
    /\ polled' = <<>>
    /\ elapsed' = NoTime
    /\ sleep_time' = NoTime
    /\ slept' = NoSleep
    /\ UNCHANGED <<config, lifecycle, returned, interrupted, merge,
                   unsupported_state_devices, command_queue, cur, pending,
                   exc, nEnqueued, handled, calls, lastFetch, rejected400>>

\* the start of one of the passes that the model counts
SweepStart == sweep < MaxSweeps /\ SweepBegins(sweep + 1)

\* the start of a pass after those: the count stays at MaxSweeps
SweepRepeat == sweep = MaxSweeps /\ SweepBegins(sweep)

\* where the loop goes when the handling of a command is over: back to the
\* test of `while not command_queue.empty()`, line 406
AfterCommand == "drain"

\* the next iteration of `for device in devices`, or its end
NextDevice ==
    IF i < Len(devices)
    THEN /\ i' = i + 1
         /\ pc' = "drain"
         /\ owed' = QueuedIds
    ELSE /\ pc' = "sweep_end"
         /\ UNCHANGED <<i, owed>>

\* a drain that stops when no queued command is addressed to `device`
DrainGoesOnOwn(q, device) ==
    \E k \in 1..Len(q) : q[k].device_id = device_slug(device)

\* the test of `while not command_queue.empty()`: line 406
DrainGoesOn(q, device) == q # <<>>

\* `while not command_queue.empty()` and, when the queue is empty,
\* `if device.device in unsupported_state_devices: continue`: lines 406, 417-418
CheckEmpty ==
    /\ pc = "drain"
    /\ IF DrainGoesOn(command_queue, devices[i])
       THEN /\ pc' = "get"
            /\ UNCHANGED <<i, owed>>
       ELSE IF devices[i].device \in unsupported_state_devices
       THEN NextDevice
       ELSE /\ pc' = "fetch"
            /\ UNCHANGED <<i, owed>>
    /\ cur' = NoCmd
    /\ calls' = <<>>
    /\ bus_out' = <<>>
    /\ answered' = NoState
    /\ lastFetch' = NoFetch
    /\ slept' = NoSleep
    /\ UNCHANGED <<config, quiet, elapsed, sleep_time, unsupported_state_devices,
                   command_queue, pending, exc, sweep, nEnqueued, handled,
                   rejected400>>

\* the get() of a queue.LifoQueue
QueueGetNewest(q) == [item |-> q[Len(q)], rest |-> SubSeq(q, 1, Len(q) - 1)]

\* queue.Queue.get(): the item taken and the items left
QueueGet(q) == [item |-> Head(q), rest |-> Tail(q)]

\* command_queue.get() and the call of _handle_command: lines 407-415
GetCommand ==
    /\ pc = "get"
    /\ cur' = QueueGet(command_queue).item
    /\ command_queue' = QueueGet(command_queue).rest
    /\ handled' = Append(handled, cur'.id)
    /\ owed' = owed \ {cur'.id}
    /\ pc' = "handle"
    /\ UNCHANGED <<clock, config, quiet, unsupported_state_devices, i, pending, exc, bus_out, answered,
                   sweep, nEnqueued, calls, lastFetch, rejected400>>

\* the bus client's callback: a message on <base_topic>/<device_id>/<entity>/set
\* becomes the command (device_id, entity, payload)
CommandOfTopic(topic, payload) == Cmd(topic[2], topic[3], payload)

NoRoute == [device |-> "", entity |-> <<>>]

\* the entity _handle_command takes a command to be for: the device looked up
\* by slug in device_map and the branch of `if entity == "light" / "switch" /
\* startswith("cap_")`, the latter with the catalog lookup: lines 216-257
Route(command) ==
    IF command.device_id \notin DOMAIN device_map THEN NoRoute
    ELSE LET device == device_map[command.device_id]
             catalog == IF device.device \in DOMAIN capability_map
                        THEN capability_map[device.device] ELSE <<>>
         IN  IF command.entity \in {<<"light">>, <<"switch">>}
             THEN [device |-> device.device, entity |-> command.entity]
             ELSE IF /\ StartsWith(command.entity, <<"cap_">>)
                     /\ CapInstance(command.entity) \in DOMAIN catalog
                  THEN [device |-> device.device,
                        entity |-> CapSuffix(catalog[CapInstance(command.entity)].instance)]
                  ELSE NoRoute

\* _handle_command from its entry to its first vendor API call: lines 216-299
HandleCommand ==
    /\ pc = "handle"
    /\ LET t == Translate(cur)
       IN  CASE t.outcome = "return" ->
                    /\ pc' = AfterCommand
                    /\ UNCHANGED <<cur, pending, exc>>
             [] t.outcome = "proceed" ->
                    /\ pc' = IF t.muts = <<>> THEN "refresh" ELSE "control"
                    /\ pending' = t.muts
                    /\ UNCHANGED <<cur, exc>>
             [] OTHER ->
                    /\ pc' = "finally"
                    /\ exc' = t.outcome
                    /\ UNCHANGED <<cur, pending>>
    /\ UNCHANGED <<clock, config, quiet, unsupported_state_devices, command_queue, i, bus_out, answered,
                   sweep, nEnqueued, handled, owed, calls, lastFetch, rejected400>>

\* a vendor API call and whether it was answered without an error
ApiCall(op, device, mutation, ok) ==
    [op |-> op, device |-> device, capability_type |-> mutation.capability_type,
     instance |-> mutation.instance, value |-> mutation.value, ok |-> ok]

NoMutation == Mutation("", "", VNull)

\* a handler that gives up the remaining mutation requests of a command when
\* one of them is answered with an HTTP status error
ControlDeviceAbandoning(status) ==
    /\ pc = "control"
    /\ calls' = Append(calls,
                       ApiCall("control_device", device_map[cur.device_id].device,
                               Head(pending), status = OkStatus))
    /\ pending' = IF status = OkStatus THEN Tail(pending) ELSE <<>>
    /\ pc' = IF status # OkStatus \/ Tail(pending) = <<>> THEN "refresh" ELSE "control"
    /\ UNCHANGED <<clock, config, quiet, unsupported_state_devices, command_queue, i,
                   cur, exc, bus_out, answered, sweep, nEnqueued, handled, owed,
                   lastFetch, rejected400>>

\* api.control_device answered with a status; an httpx.HTTPStatusError is
\* logged: lines 231-238, 243-250, 284-296
ControlDevice(status) ==
    /\ pc = "control"
    /\ calls' = Append(calls,
                       ApiCall("control_device", device_map[cur.device_id].device,
                               Head(pending), status = OkStatus))
    /\ pending' = Tail(pending)
    /\ pc' = IF Tail(pending) = <<>> THEN "refresh" ELSE "control"
    /\ UNCHANGED <<clock, config, quiet, unsupported_state_devices, command_queue, i, cur, exc,
                   bus_out, answered, sweep, nEnqueued, handled, owed, lastFetch,
                   rejected400>>

\* api.control_device raising an error that is no httpx.HTTPStatusError
ControlDeviceFails ==
    /\ pc = "control"
    /\ calls' = Append(calls,
                       ApiCall("control_device", device_map[cur.device_id].device,
                               Head(pending), FALSE))
    /\ pc' = "finally"
    /\ exc' = "TransportError"
    /\ UNCHANGED <<clock, config, quiet, unsupported_state_devices, command_queue, i, cur,
                   pending, bus_out, answered, sweep, nEnqueued, handled, owed, lastFetch,
                   rejected400>>

\* the state refresh that ends _handle_command, with _publish_state when it
\* succeeds: lines 301-312
RefreshState(status, state) ==
    /\ pc = "refresh"
    /\ state.device = device_map[cur.device_id].device
    /\ calls' = Append(calls,
                       ApiCall("get_device_state", device_map[cur.device_id].device,
                               NoMutation, status = OkStatus))
    /\ bus_out' = IF status = OkStatus
                  THEN _publish_state(BaseTopic, device_map[cur.device_id], state,
                                      capability_map, capability_options)
                  ELSE <<>>
    /\ answered' = IF status = OkStatus THEN state ELSE NoState
    /\ pc' = AfterCommand
    /\ UNCHANGED <<clock, config, quiet, unsupported_state_devices, command_queue, i, cur,
                   pending, exc, sweep, nEnqueued, handled, owed, lastFetch,
                   rejected400>>

\* the state refresh raising an error that is no httpx.HTTPStatusError
RefreshStateFails ==
    /\ pc = "refresh"
    /\ calls' = Append(calls,
                       ApiCall("get_device_state", device_map[cur.device_id].device,
                               NoMutation, FALSE))
    /\ pc' = "finally"
    /\ exc' = "TransportError"
    /\ UNCHANGED <<clock, config, quiet, unsupported_state_devices, command_queue, i, cur,
                   pending, bus_out, answered, sweep, nEnqueued, handled, owed, lastFetch,
                   rejected400>>

\* the scheduled api.get_device_state answered with a status: lines 420-445
FetchState(status, state) ==
    /\ pc = "fetch"
    /\ state.device = devices[i].device
    /\ polled' = Append(polled, devices[i].device)
    /\ lastFetch' = [device |-> devices[i].device, status |-> status]
    /\ rejected400' =
          IF status = 400 THEN rejected400 \cup {devices[i].device} ELSE rejected400
    /\ IF status = OkStatus
       THEN /\ bus_out' = _publish_state(BaseTopic, devices[i], state,
                                           capability_map, capability_options)
            /\ answered' = state
            /\ pc' = "pace"
            /\ UNCHANGED <<unsupported_state_devices, i, owed>>
       ELSE /\ unsupported_state_devices' =
                  IF StickyStatus(status)
                  THEN unsupported_state_devices \cup {devices[i].device}
                  ELSE unsupported_state_devices
            /\ NextDevice
            /\ bus_out' = <<>>
            /\ answered' = NoState
    /\ UNCHANGED <<clock, config, lifecycle, returned, interrupted, merge, command_queue, cur,
                   pending, exc, sweep, nEnqueued, handled, calls>>

\* the scheduled fetch raising an error that is no httpx.HTTPStatusError
FetchStateFails ==
    /\ pc = "fetch"
    /\ pc' = "finally"
    /\ exc' = "TransportError"
    /\ polled' = Append(polled, devices[i].device)
    /\ UNCHANGED <<clock, config, lifecycle, returned, interrupted, merge,
                   unsupported_state_devices, command_queue, i, cur, pending,
                   bus_out, answered, sweep, nEnqueued, handled, owed, calls, lastFetch,
                   rejected400>>

\* time.sleep between two devices: line 447
Pace ==
    /\ pc = "pace"
    /\ NextDevice
    /\ bus_out' = <<>>
    /\ answered' = NoState
    /\ lastFetch' = NoFetch
    /\ slept' = [at |-> "device", seconds |-> PaceTime(poll_interval, devices)]
    /\ UNCHANGED <<config, quiet, elapsed, sleep_time, unsupported_state_devices,
                   command_queue, cur, pending, exc, sweep, nEnqueued, handled,
                   calls, rejected400>>

\* the end of a sweep: `if args.once: break`, else `elapsed`, `sleep_time`
\* and `if sleep_time:`: lines 449-454.  spent is the time the sweep took
\* apart from the sleep of its last step
SweepEnd(spent) ==
    /\ pc = "sweep_end"
    /\ IF once
       THEN /\ pc' = "finally"
            /\ UNCHANGED <<elapsed, sleep_time>>
       ELSE /\ elapsed' = FracAdd(slept.seconds, spent)
            /\ sleep_time' = SleepTime(poll_interval, FracAdd(slept.seconds, spent))
            /\ pc' = IF FracTruthy(SleepTime(poll_interval,
                                            FracAdd(slept.seconds, spent)))
                     THEN "sweep_sleep" ELSE "sweep_start"
    /\ bus_out' = <<>>
    /\ answered' = NoState
    /\ lastFetch' = NoFetch
    /\ slept' = NoSleep
    /\ UNCHANGED <<config, quiet, unsupported_state_devices, command_queue, i, cur,
                   pending, exc, sweep, nEnqueued, handled, owed, calls,
                   rejected400>>

\* time.sleep(sleep_time) after a sweep: line 455
SweepSleep ==
    /\ pc = "sweep_sleep"
    /\ pc' = "sweep_start"
    /\ slept' = [at |-> "sweep", seconds |-> sleep_time]
    /\ UNCHANGED <<config, quiet, elapsed, sleep_time, unsupported_state_devices,
                   command_queue, i, cur, pending, exc, bus_out, answered, sweep,
                   nEnqueued, handled, owed, calls, lastFetch, rejected400>>

\* the positions of main() inside the try block of the loop
LoopPositions ==
    {"sweep_start", "drain", "get", "handle", "control", "refresh", "fetch",
     "pace", "sweep_end", "sweep_sleep"}

\* a KeyboardInterrupt raised in the main thread, caught at line 456
Interrupt ==
    /\ pc \in LoopPositions
    /\ pc' = "finally"
    /\ exc' = "KeyboardInterrupt"
    /\ interrupted' =
          [at |-> pc, queued |-> QueuedIds,
           handling |-> IF pc \in {"handle", "control", "refresh"} THEN cur.id ELSE 0]
    /\ UNCHANGED <<clock, config, lifecycle, returned, polled, merge, unsupported_state_devices,
                   command_queue, i, cur, pending, bus_out, answered, sweep, nEnqueued,
                   handled, owed, calls, lastFetch, rejected400>>

\* how main() ends: 0 from `return 0` (line 462), else the exception it raises
ExitOf(exception) ==
    IF exception \in {"", "KeyboardInterrupt"} THEN "0" ELSE exception

\* an end of main() that closes the vendor API client before it disconnects
\* the bus client
FinallyClosingFirst ==
    /\ pc = "finally"
    /\ pc' = "exited"
    /\ lifecycle' = lifecycle \o <<"close", "disconnect">>
    /\ returned' = ExitOf(exc)
    /\ UNCHANGED <<clock, config, polled, interrupted, merge,
                   unsupported_state_devices, command_queue, i, cur, pending, exc,
                   bus_out, answered, sweep, nEnqueued, handled, owed, calls,
                   lastFetch, rejected400>>

\* `finally: mqtt.disconnect(); api.close()` and the end of main(): lines 456-462
Finally ==
    /\ pc = "finally"
    /\ pc' = "exited"
    /\ lifecycle' = lifecycle \o <<"disconnect", "close">>
    /\ returned' = ExitOf(exc)
    /\ UNCHANGED <<clock, config, polled, interrupted, merge, unsupported_state_devices, command_queue, i, cur,
                   pending, exc, bus_out, answered, sweep, nEnqueued, handled, owed, calls,
                   lastFetch, rejected400>>

Next ==
    \/ \E c \in SweepCommands : Enqueue(c)
    \/ SweepStart
    \/ CheckEmpty
    \/ GetCommand
    \/ HandleCommand
    \/ \E status \in Statuses : ControlDevice(status)
    \/ ControlDeviceFails
    \/ \E status \in Statuses, state \in LoopStates : RefreshState(status, state)
    \/ RefreshStateFails
    \/ \E status \in Statuses, state \in LoopStates : FetchState(status, state)
    \/ FetchStateFails
    \/ Pace
    \/ \E spent \in Spent : SweepEnd(spent)
    \/ SweepSleep
    \/ Finally

Spec == Init /\ [][Next]_vars

\* single-pass mode (--once), with every command of the pool; the sleep after
\* a sweep is not reached
InitOnce == \E devs \in DeviceLists : LoopEntry(devs, TRUE)

NextOnce ==
    \/ \E c \in CommandPool : Enqueue(c)
    \/ SweepStart
    \/ CheckEmpty
    \/ GetCommand
    \/ HandleCommand
    \/ \E status \in Statuses : ControlDevice(status)
    \/ ControlDeviceFails
    \/ \E status \in Statuses, state \in LoopStates : RefreshState(status, state)
    \/ RefreshStateFails
    \/ \E status \in Statuses, state \in LoopStates : FetchState(status, state)
    \/ FetchStateFails
    \/ Pace
    \/ \E spent \in Spent : SweepEnd(spent)
    \/ Finally

SpecOnce == InitOnce /\ [][NextOnce]_vars

\* the loop with an interrupt signal that can arrive at any position
InitInt == \E devs \in DeviceLists : LoopEntry(devs, FALSE)

NextInt ==
    \/ Next
    \/ Interrupt

SpecInt == InitInt /\ [][NextInt]_vars

-----------------------------------------------------------------------------
(* The catalog specification: main() up to line 358, for generated devices *)

GenNames == {None, <<"Sunrise">>, <<"Sunset">>}

GenValues ==
    { VObj(<<<<"a", 1>>, <<"b", 2>>>>), VObj(<<<<"b", 2>>, <<"a", 1>>>>),
      VObj(<<<<"id", 1>>>>) }

GenOptions == {Opt(nm, v) : nm \in GenNames, v \in GenValues}

RECURSIVE SeqsUpTo(_, _)
\* the sequences of at most n elements of S
SeqsUpTo(S, n) ==
    IF n = 0 THEN { <<>> }
    ELSE SeqsUpTo(S, n - 1) \cup
         { Append(q, x) : q \in {r \in SeqsUpTo(S, n - 1) : Len(r) = n - 1},
                          x \in S }

\* the capabilities a generated device can declare; opts: the scene's options
GenCaps(opts) ==
    { Cap("on_off", "powerSwitch", "ENUM", <<>>),
      Cap("range", "brightness", "INTEGER", <<>>),
      Cap("toggle", "brightness", "ENUM", <<>>),
      Cap("range", "temperature", "INTEGER", <<>>),
      Cap("event", "lackWaterEvent", "ENUM", <<>>),
      Cap("dynamic_scene", "lightScene", "ENUM", opts),
      Cap("work_mode", "workMode", "", <<>>) }

\* a socket without the power capability is neither a light nor a switch
GenTypes == {TypeLight, TypeSocket}

HasScene(caps) == \E k \in 1..Len(caps) : caps[k].instance = "lightScene"

\* the capabilities caps, with the scene capability's options set to opts
WithOptions(caps, opts) ==
    [k \in 1..Len(caps) |->
        IF caps[k].instance = "lightScene"
        THEN Cap(caps[k].type, caps[k].instance, caps[k].parameters.dataType, opts)
        ELSE caps[k]]

InitMaps ==
    /\ \E type \in GenTypes, caps \in SeqsUpTo(GenCaps(<<>>), MaxCaps) :
         \E opts \in IF HasScene(caps) THEN SeqsUpTo(GenOptions, MaxOpts)
                                       ELSE { <<>> } :
            devices = <<Dev("AA", "gen", <<"H", "6">>, type, WithOptions(caps, opts))>>
    /\ once = FALSE
    /\ poll_interval = 3
    /\ capability_map = <<>>
    /\ capability_options = <<>>
    /\ device_map = <<>>
    /\ unsupported_state_devices = {}
    /\ command_queue = <<>>
    /\ pc = "startup"
    /\ i = 0
    /\ cur = NoCmd
    /\ pending = <<>>
    /\ exc = ""
    /\ bus_out = <<>>
    /\ answered = NoState
    /\ sweep = 0
    /\ nEnqueued = 0
    /\ handled = <<>>
    /\ owed = {}
    /\ calls = <<>>
    /\ lastFetch = NoFetch
    /\ rejected400 = {}
    /\ dry_run = FALSE
    /\ advertised = <<>>
    /\ lifecycle = <<"GoveeApiClient">>
    /\ returned = ""
    /\ polled = <<>>
    /\ interrupted = NoInterrupt
    /\ merge = NoMerge
    /\ elapsed = NoTime
    /\ sleep_time = NoTime
    /\ slept = NoSleep

\* capability_map, capability_options = _build_capability_maps(devices): line 358
BuildMaps ==
    /\ pc = "startup"
    /\ capability_map' = _build_capability_maps(devices).capability_map
    /\ capability_options' = _build_capability_maps(devices).capability_options
    /\ pc' = "built"
    /\ UNCHANGED <<clock, devices, device_map, once, poll_interval, dry_run, advertised, quiet,
                   unsupported_state_devices, command_queue, i, cur, pending, exc,
                   bus_out, answered, sweep, nEnqueued, handled, owed, calls, lastFetch,
                   rejected400>>

NextMaps == BuildMaps

SpecMaps == InitMaps /\ [][NextMaps]_vars

-----------------------------------------------------------------------------
(* The startup specification: main() from line 358 on, with --dry-run and   *)
(* --once chosen freely, for generated devices, without bus commands        *)

\* the capabilities a device of the startup specification can declare
StartCaps ==
    { Cap("on_off", "powerSwitch", "ENUM", <<>>),
      Cap("range", "brightness", "INTEGER", <<>>),
      Cap("toggle", "oscillation", "ENUM", <<>>),
      Cap("toggle", "nightlight", "", <<>>),
      Cap("range", "volume", "INTEGER", <<>>),
      Cap("mode", "lightScene", "ENUM", <<Opt(<<"Sunrise">>, VObj(<<<<"id", 1>>>>))>>),
      Cap("work_mode", "workMode", "", <<>>),
      Cap("music_setting", "musicMode", "STRUCT", <<>>),
      Cap("segment_color_setting", "segments", "BLOB", <<>>),
      Cap("range", "temperature", "INTEGER", <<>>),
      Cap("event", "lackWaterEvent", "ENUM", <<>>) }

InitStart ==
    /\ \E type \in GenTypes, caps \in SeqsUpTo(StartCaps, MaxCaps) :
            devices = <<Dev("AA", "gen", <<"H", "6">>, type, caps)>>
    /\ once \in BOOLEAN
    /\ poll_interval = 3
    /\ dry_run \in BOOLEAN
    /\ capability_map = <<>>
    /\ capability_options = <<>>
    /\ device_map = <<>>
    /\ unsupported_state_devices = {}
    /\ command_queue = <<>>
    /\ pc = "startup"
    /\ i = 0
    /\ cur = NoCmd
    /\ pending = <<>>
    /\ exc = ""
    /\ bus_out = <<>>
    /\ answered = NoState
    /\ sweep = 0
    /\ nEnqueued = 0
    /\ handled = <<>>
    /\ owed = {}
    /\ calls = <<>>
    /\ lastFetch = NoFetch
    /\ rejected400 = {}
    /\ advertised = <<>>
    /\ lifecycle = <<"GoveeApiClient">>
    /\ returned = ""
    /\ polled = <<>>
    /\ interrupted = NoInterrupt
    /\ merge = NoMerge
    /\ elapsed = NoTime
    /\ sleep_time = NoTime
    /\ slept = NoSleep

\* `if args.dry_run:` _print_dry_run, api.close(), return 0: lines 369-372
DryRun ==
    /\ pc = "built"
    /\ dry_run
    /\ lifecycle' = Append(lifecycle, "close")
    /\ returned' = "0"
    /\ pc' = "exited"
    /\ UNCHANGED <<clock, config, polled, interrupted, merge, unsupported_state_devices,
                   command_queue, i, cur, pending, exc, bus_out, answered, sweep, nEnqueued,
                   handled, owed, calls, lastFetch, rejected400>>

\* the bus client is created, given the command handler and connected,
\* device_map and the unsupported set are built and _publish_discovery runs:
\* lines 377-400
ConnectBus ==
    /\ pc = "built"
    /\ lifecycle' = lifecycle \o <<"MqttClient", "set_command_handler", "connect">>
    /\ device_map' = DeviceMapOf(devices)
    /\ unsupported_state_devices' = InitialUnsupported(devices)
    /\ advertised' = _publish_discovery(BaseTopic, devices, capability_map)
    /\ pc' = "sweep_start"
    /\ UNCHANGED <<clock, devices, capability_map, capability_options, once, poll_interval, dry_run,
                   returned, polled, interrupted, merge, command_queue, i, cur, pending,
                   exc, bus_out, answered, sweep, nEnqueued, handled, owed, calls, lastFetch,
                   rejected400>>

\* what follows `if args.dry_run: ... return 0` is reached without --dry-run
\* only: lines 369-377
Connect ==
    /\ ~dry_run
    /\ ConnectBus

NextStart ==
    \/ BuildMaps
    \/ DryRun
    \/ Connect
    \/ SweepStart
    \/ CheckEmpty
    \/ \E status \in Statuses, state \in LoopStates : FetchState(status, state)
    \/ FetchStateFails
    \/ Pace
    \/ \E spent \in Spent : SweepEnd(spent)
    \/ SweepSleep
    \/ Finally

SpecStart == InitStart /\ [][NextStart]_vars

-----------------------------------------------------------------------------
(* The codec specification: the loop in single-pass mode for one light with *)
(* a select, a number and a text entity, generated option lists, one        *)
(* inbound select command and generated device states                       *)

\* raw option values: a structure, 0, false, an empty string, null
CodecValues == {VObj(<<<<"id", 1>>>>), VInt(0), VBool(0), VStr(<<>>), VNull}

CodecNames == {<<"A">>, <<"B">>}

CodecOptions == {Opt(nm, v) : nm \in CodecNames, v \in CodecValues}

CodecDevice(opts) ==
    Dev("AA", "gen", <<"H", "6">>, TypeLight,
        <<Cap("mode", "lightScene", "ENUM", opts),
          Cap("range", "volume", "INTEGER", <<>>),
          Cap("music_setting", "musicMode", "STRUCT", <<>>)>>)

\* select commands naming the options and an unknown option, a light command
\* with two settings and one with an empty payload
CodecCommands ==
    { Cmd(device_slug(CodecDevice(<<>>)), <<"cap_", "lightScene">>, payload) :
        payload \in CodecNames \cup {<<"C">>} }
    \cup
    { Cmd(device_slug(CodecDevice(<<>>)), <<"light">>,
          DumpsPlain(VObj(<<<<"color_temp", 3>>, <<"brightness", 5>>>>))),
      Cmd(device_slug(CodecDevice(<<>>)), <<"light">>, <<>>) }

\* what api.get_device_state can answer: the scene's raw value is one of the
\* option values or another structure, values can be missing (None), and the
\* state has a capability that is not in the catalog
CodecStates ==
    { DeviceState("AA", <<StateCap("lightScene", scene),
                          StateCap("volume", volume),
                          StateCap("musicMode", VObj(<<<<"id", 1>>>>)),
                          StateCap("unlisted", VInt(1))>>) :
        scene \in CodecValues \cup {VObj(<<<<"id", 2>>>>)},
        volume \in {VNull, VInt(0)} }

InitCodec ==
    \E opts \in SeqsUpTo(CodecOptions, MaxOpts) : LoopEntry(<<CodecDevice(opts)>>, TRUE)

NextCodec ==
    \/ \E c \in CodecCommands : nEnqueued = 0 /\ Enqueue(c)
    \/ SweepStart
    \/ CheckEmpty
    \/ GetCommand
    \/ HandleCommand
    \/ \E status \in Statuses : ControlDevice(status)
    \/ ControlDeviceFails
    \/ \E status \in Statuses, state \in CodecStates : RefreshState(status, state)
    \/ RefreshStateFails
    \/ \E status \in Statuses, state \in CodecStates : FetchState(status, state)
    \/ FetchStateFails
    \/ Pace
    \/ \E spent \in Spent : SweepEnd(spent)
    \/ Finally

SpecCodec == InitCodec /\ [][NextCodec]_vars

-----------------------------------------------------------------------------
(* The enrichment specification: main(), lines 337-358: the scene and DIY   *)
(* scene options of every device with a scene capability are merged into    *)
(* its capabilities before the catalogs are built.  A parameter bag has a   *)
(* key when the key's value is not empty.                                   *)

\* a merge that lets the scene capability's keys replace the existing ones
MergeParametersOverwriting(base_parameters, scene_params) ==
    [dataType |-> scene_params.dataType, options |-> scene_params.options]

\* base_cap.parameters after lines 58-59: setdefault for every key of
\* scene_params, then the options list is replaced
MergeParameters(base_parameters, scene_params) ==
    [dataType |-> IF base_parameters.dataType = "" THEN scene_params.dataType
                  ELSE base_parameters.dataType,
     options |-> scene_params.options]

\* `base_cap.type == scene_cap.type and base_cap.instance == scene_cap.instance`
SameCapability(base_cap, scene_cap) ==
    base_cap.type = scene_cap.type /\ base_cap.instance = scene_cap.instance

\* one pass of `for scene_cap in scene_caps`: lines 51-59
MergeSceneCap(capabilities, scene_cap) ==
    IF scene_cap.parameters.options = <<>>
    THEN capabilities
    ELSE [k \in 1..Len(capabilities) |->
             IF SameCapability(capabilities[k], scene_cap)
             THEN [capabilities[k] EXCEPT
                      !.parameters = MergeParameters(@, scene_cap.parameters)]
             ELSE capabilities[k]]

RECURSIVE MergeSceneCaps(_, _)
\* the capabilities of the device after the loop over scene_caps
MergeSceneCaps(capabilities, scene_caps) ==
    IF scene_caps = <<>> THEN capabilities
    ELSE MergeSceneCaps(MergeSceneCap(capabilities, Head(scene_caps)),
                        Tail(scene_caps))

\* _merge_scene_options(device, scene_caps): the device it leaves
_merge_scene_options(device, scene_caps) ==
    [device EXCEPT !.capabilities = MergeSceneCaps(@, scene_caps)]

SceneTypes == {"dynamic_scene", "dynamic_setting", "mode"}

\* has_scene: lines 338-346
has_scene(device) ==
    \E k \in 1..Len(device.capabilities) : device.capabilities[k].type \in SceneTypes

Aurora == Opt(<<"Aurora">>, VObj(<<<<"id", 2>>>>))
Sunset == Opt(<<"Sunset">>, VInt(3))
Mine == Opt(<<"Mine">>, VInt(7))

\* the capabilities a device of the enrichment specification can declare
MergeCaps ==
    { Cap("dynamic_scene", "lightScene", "ENUM", <<Sunset>>),
      Cap("dynamic_scene", "lightScene", "", <<>>),
      Cap("dynamic_scene", "diyScene", "ENUM", <<>>),
      Cap("range", "lightScene", "INTEGER", <<>>),
      Cap("mode", "presetScene", "", <<Mine>>) }

\* the capabilities get_device_scenes can answer with
ScenePool ==
    { Cap("dynamic_scene", "lightScene", "STRUCT", <<Aurora>>),
      Cap("dynamic_scene", "lightScene", "ENUM", <<Sunset, Aurora>>),
      Cap("dynamic_scene", "lightScene", "ENUM", <<>>),
      Cap("dynamic_scene", "diyScene", "STRUCT", <<Mine>>) }

\* the capabilities get_device_diy_scenes can answer with
DiyScenePool ==
    { Cap("dynamic_scene", "diyScene", "", <<Mine>>),
      Cap("dynamic_scene", "lightScene", "", <<Mine>>) }

InitMerge ==
    /\ \E caps \in SeqsUpTo(MergeCaps, MaxCaps) :
          devices \in { <<Dev("AA", "gen", <<"H", "6">>, TypeLight, caps)>>,
                        <<Plug, Dev("AA", "gen", <<"H", "6">>, TypeLight, caps)>> }
    /\ once = FALSE
    /\ poll_interval = 3
    /\ capability_map = <<>>
    /\ capability_options = <<>>
    /\ device_map = <<>>
    /\ unsupported_state_devices = {}
    /\ command_queue = <<>>
    /\ pc = "scenes"
    /\ i = 1
    /\ cur = NoCmd
    /\ pending = <<>>
    /\ exc = ""
    /\ bus_out = <<>>
    /\ answered = NoState
    /\ sweep = 0
    /\ nEnqueued = 0
    /\ handled = <<>>
    /\ owed = {}
    /\ calls = <<>>
    /\ lastFetch = NoFetch
    /\ rejected400 = {}
    /\ dry_run = FALSE
    /\ advertised = <<>>
    /\ lifecycle = <<"GoveeApiClient">>
    /\ returned = ""
    /\ polled = <<>>
    /\ interrupted = NoInterrupt
    /\ merge = NoMerge
    /\ elapsed = NoTime
    /\ sleep_time = NoTime
    /\ slept = NoSleep

\* the next pass of `for device in devices` (line 337), or line 358
AfterDevice(k) ==
    IF k < Len(devices) THEN [pc |-> "scenes", i |-> k + 1]
    ELSE [pc |-> "startup", i |-> 0]

\* `if not has_scene: continue`: lines 347-348
NoSceneCapability ==
    /\ pc = "scenes"
    /\ ~has_scene(devices[i])
    /\ pc' = AfterDevice(i).pc
    /\ i' = AfterDevice(i).i
    /\ UNCHANGED <<clock, devices, capability_map, capability_options, device_map, once, poll_interval,
                   dry_run, advertised, quiet, unsupported_state_devices,
                   command_queue, cur, pending, exc, bus_out, answered, sweep,
                   nEnqueued, handled, owed, calls, lastFetch, rejected400>>

\* what a scene request that answered leaves: the merge of its capabilities,
\* or nothing when the answer is an HTTP status error (caught: lines 351, 355)
SceneAnswer(status, scene_caps) ==
    IF status = OkStatus
    THEN /\ devices' = [devices EXCEPT ![i] = _merge_scene_options(@, scene_caps)]
         /\ merge' = [before |-> devices[i], scene_caps |-> scene_caps, at |-> i]
    ELSE UNCHANGED <<devices, merge>>

\* _merge_scene_options(device, api.get_device_scenes(device)): lines 349-352
GetDeviceScenes(status, scene_caps) ==
    /\ pc = "scenes"
    /\ has_scene(devices[i])
    /\ SceneAnswer(status, scene_caps)
    /\ pc' = "diy_scenes"
    /\ UNCHANGED <<clock, capability_map, capability_options, device_map, once, poll_interval, dry_run,
                   advertised, lifecycle, returned, polled, interrupted,
                   unsupported_state_devices, command_queue, i, cur, pending, exc,
                   bus_out, answered, sweep, nEnqueued, handled, owed, calls,
                   lastFetch, rejected400>>

\* _merge_scene_options(device, api.get_device_diy_scenes(device)): lines 353-356
GetDeviceDiyScenes(status, scene_caps) ==
    /\ pc = "diy_scenes"
    /\ SceneAnswer(status, scene_caps)
    /\ pc' = AfterDevice(i).pc
    /\ i' = AfterDevice(i).i
    /\ UNCHANGED <<clock, capability_map, capability_options, device_map, once, poll_interval, dry_run,
                   advertised, lifecycle, returned, polled, interrupted,
                   unsupported_state_devices, command_queue, cur, pending, exc,
                   bus_out, answered, sweep, nEnqueued, handled, owed, calls,
                   lastFetch, rejected400>>

\* a scene request that ends in an error without an HTTP status: neither
\* `except` of lines 349-356 catches it and main() ends with it
SceneRequestFails ==
    /\ pc \in {"scenes", "diy_scenes"}
    /\ has_scene(devices[i])
    /\ exc' = "TransportError"
    /\ returned' = ExitOf("TransportError")
    /\ pc' = "exited"
    /\ UNCHANGED <<clock, config, lifecycle, polled, interrupted, merge,
                   unsupported_state_devices, command_queue, i, cur, pending,
                   bus_out, answered, sweep, nEnqueued, handled, owed, calls,
                   lastFetch, rejected400>>

NextMerge ==
    \/ NoSceneCapability
    \/ \E status \in Statuses, scene_caps \in SeqsUpTo(ScenePool, MaxCaps) :
          GetDeviceScenes(status, scene_caps)
    \/ \E status \in Statuses, scene_caps \in SeqsUpTo(DiyScenePool, 1) :
          GetDeviceDiyScenes(status, scene_caps)
    \/ SceneRequestFails
    \/ BuildMaps

SpecMerge == InitMerge /\ [][NextMerge]_vars

-----------------------------------------------------------------------------
(* The pacing specification: the loop in continuous mode without bus        *)
(* commands, for several poll intervals and sweep durations                 *)

\* config.poll_interval_seconds: shorter than, and not a multiple of, the
\* number of devices
PollIntervals == {1, 3}

InitPace ==
    \E devs \in DeviceLists, interval \in PollIntervals :
        LoopEntryWith(devs, FALSE, interval)

NextPace ==
    \/ SweepStart
    \/ CheckEmpty
    \/ \E status \in Statuses, state \in LoopStates : FetchState(status, state)
    \/ Pace
    \/ \E spent \in Spent \cup {Frac(1, 2)} : SweepEnd(spent)
    \/ SweepSleep

SpecPace == InitPace /\ [][NextPace]_vars

-----------------------------------------------------------------------------
(* The progress specification: the loop in continuous mode when every       *)
(* vendor API call answers and no KeyboardInterrupt is raised.  The main    *)
(* thread is never starved: the loop's steps are weakly fair.  The loop     *)
(* goes on after the passes that the model counts.                          *)

\* the commands of the progress specification: one for a switch and one with
\* a payload that is no number for a number entity
LiveCommands ==
    { Cmd(device_slug(Plug), <<"switch">>, <<" ", "o", "n">>),
      Cmd(device_slug(Lamp), <<"cap_", "volume">>, <<"a", "b", "c">>) }

InitLive == \E devs \in DeviceLists : LoopEntry(devs, FALSE)

\* a step of the main thread
LoopStep ==
    \/ SweepStart
    \/ SweepRepeat
    \/ CheckEmpty
    \/ GetCommand
    \/ HandleCommand
    \/ \E status \in Statuses : ControlDevice(status)
    \/ \E status \in Statuses, state \in LoopStates : RefreshState(status, state)
    \/ \E status \in Statuses, state \in LoopStates : FetchState(status, state)
    \/ Pace
    \/ \E spent \in Spent : SweepEnd(spent)
    \/ SweepSleep
    \/ Finally

NextLive ==
    \/ \E c \in LiveCommands : Enqueue(c)
    \/ LoopStep

SpecLive == InitLive /\ [][NextLive]_vars /\ WF_vars(LoopStep)

-----------------------------------------------------------------------------
(* The exit specification: the loop in either mode, with the commands of    *)
(* the progress specification, vendor calls that can raise, and a           *)
(* KeyboardInterrupt at any position of the loop                            *)

InitExit ==
    \E devs \in DeviceLists, single_pass \in BOOLEAN : LoopEntry(devs, single_pass)

NextExit ==
    \/ \E c \in LiveCommands : Enqueue(c)
    \/ SweepStart
    \/ CheckEmpty
    \/ GetCommand
    \/ HandleCommand
    \/ \E status \in Statuses : ControlDevice(status)
    \/ ControlDeviceFails
    \/ \E status \in Statuses, state \in LoopStates : RefreshState(status, state)
    \/ RefreshStateFails
    \/ \E status \in Statuses, state \in LoopStates : FetchState(status, state)
    \/ FetchStateFails
    \/ Pace
    \/ \E spent \in Spent : SweepEnd(spent)
    \/ SweepSleep
    \/ Interrupt
    \/ Finally

SpecExit == InitExit /\ [][NextExit]_vars

-----------------------------------------------------------------------------
(* Properties of the catalog *)

EntitiesBuilt == pc # "startup"

\* the option lists whose canonically serialized raw values are pairwise distinct
DistinctSerialized(options) ==
    \A j, k \in 1..Len(options) :
        j # k => DumpsSorted(options[j].value) # DumpsSorted(options[k].value)

\* name -> value -> name gives the name back, for one option of one table
RoundTrips(table, opt) ==
    /\ opt.name \in DOMAIN table.name_to_value
    /\ ValueKey(table.name_to_value[opt.name]) \in DOMAIN table.value_to_name
    /\ table.value_to_name[ValueKey(table.name_to_value[opt.name])] = opt.name

\* C7: for every select entity whose options have pairwise distinct serialized
\* raw values, every option with a name round-trips: looking the name up in
\* name_to_value and the serialized result in value_to_name gives the name back.
C7_SelectRoundTrip ==
    EntitiesBuilt =>
        \A id \in DOMAIN capability_map :
            \A inst \in DOMAIN capability_map[id] :
                LET entity == capability_map[id][inst]
                IN  (entity.entity_type = "select"
                        /\ DistinctSerialized(entity.option_values))
                    => /\ inst \in DOMAIN capability_options[id]
                       /\ \A k \in 1..Len(entity.option_values) :
                            entity.option_values[k].name # None
                            => RoundTrips(capability_options[id][inst],
                                          entity.option_values[k])

\* a select entity with two named options of distinct serializations, one of
\* them a dict whose keys are not in sorted order, has been cataloged
C7_Witness ==
    /\ pc = "built"
    /\ \E id \in DOMAIN capability_map :
        \E inst \in DOMAIN capability_map[id] :
            LET entity == capability_map[id][inst]
            IN  /\ entity.entity_type = "select"
                /\ Len(entity.option_values) = 2
                /\ DistinctSerialized(entity.option_values)
                /\ entity.option_values[1].name = <<"Sunrise">>
                /\ entity.option_values[2].name = <<"Sunset">>
                /\ entity.option_values[1].value = VObj(<<<<"b", 2>>, <<"a", 1>>>>)

LightInstances == {"powerSwitch", "brightness", "colorRgb", "colorTemperatureK"}

SurfacedAsSensor(device) ==
    {sensor_entities(device)[k].instance : k \in 1..Len(sensor_entities(device))}

-----------------------------------------------------------------------------
(* Properties of the synchronization loop *)

\* C1: commands are handled in the order they were enqueued, whatever device
\* each is addressed to: the k-th command dequeued is the k-th enqueued, and the
\* queue holds the later ones in arrival order.
C1_ArrivalOrder ==
    /\ \A k \in 1..Len(handled) : handled[k] = k
    /\ \A k \in 1..Len(command_queue) : command_queue[k].id = Len(handled) + k

\* in the turn of the first device of the sweep, the first command, addressed
\* to the second device, is handled while a later command for the first device
\* waits in the queue
C1_Witness ==
    /\ Len(devices) = 2
    /\ i = 1
    /\ pc = "handle"
    /\ cur.id = 1
    /\ cur.device_id = device_slug(devices[2])
    /\ Len(command_queue) = 1
    /\ command_queue[1].device_id = device_slug(devices[1])

\* C2: when the scheduled fetch of a device is issued, every command that was
\* queued when the device's turn began, whatever device it addresses, has been
\* dequeued and its handling is over.
C2_DrainBeforeFetch ==
    pc = "fetch" => (owed = {} /\ owed \cap QueuedIds = {} /\ cur = NoCmd)

\* a scheduled fetch is about to be issued after a drain that handled a
\* command, while a command enqueued after the drain waits in the queue
C2_Witness ==
    /\ pc = "fetch"
    /\ sweep = 1
    /\ i = 1
    /\ Len(handled) = 1
    /\ command_queue # <<>>

\* C3: a device whose scheduled fetch was rejected with HTTP 400 is in the
\* unsupported set from then on and no scheduled fetch of it is issued again,
\* while the devices that were not rejected are not excluded by it.
C3_Sticky400 ==
    /\ rejected400 \subseteq unsupported_state_devices
    /\ pc = "fetch" => devices[i].device \notin rejected400
    /\ \A k \in 1..Len(devices) :
          (_state_supported(devices[k]) /\ devices[k].device \notin rejected400)
          => devices[k].device \notin unsupported_state_devices

\* in the second sweep the first device is about to be fetched, the second
\* device having been rejected with HTTP 400 in the first sweep
C3_Witness ==
    /\ Len(devices) = 2
    /\ sweep = 2
    /\ i = 1
    /\ pc = "fetch"
    /\ rejected400 = {devices[2].device}

\* C4: no failure of a vendor API call, of whatever error class, makes the loop
\* exit.
C4_ApiFailureIsolated == ~(pc \in {"finally", "exited"} /\ exc = "TransportError")

IsNumberCommand(command) ==
    /\ command.device_id \in DOMAIN device_map
    /\ StartsWith(command.entity, <<"cap_">>)
    /\ LET catalog == capability_map[device_map[command.device_id].device]
       IN  /\ CapInstance(command.entity) \in DOMAIN catalog
           /\ catalog[CapInstance(command.entity)].entity_type = "number"

\* C5: a number command whose payload is neither an integer nor a float is
\* dropped: it causes no mutation request and the loop keeps running.
C5_MalformedNumberDropped ==
    (IsNumberCommand(cur) /\ ~IntParses(cur.payload) /\ ~FloatParses(cur.payload))
    => (calls = <<>> /\ pc \notin {"control", "finally", "exited"})

\* the entity a cap_<instance> command addresses, when the catalog has it
HasCatalogEntity(command) ==
    /\ command.device_id \in DOMAIN device_map
    /\ StartsWith(command.entity, <<"cap_">>)
    /\ CapInstance(command.entity)
          \in DOMAIN capability_map[device_map[command.device_id].device]

CatalogEntity(command) ==
    capability_map[device_map[command.device_id].device][CapInstance(command.entity)]

IsDisplayName(entity, payload) ==
    \E k \in 1..Len(entity.option_values) : entity.option_values[k].name = payload

\* the commands C6 calls rejected at translation time
RejectedAtTranslation(command) ==
    \/ command.device_id \notin DOMAIN device_map
    \/ /\ command.entity # <<"light">>
       /\ command.entity # <<"switch">>
       /\ ~StartsWith(command.entity, <<"cap_">>)
    \/ /\ StartsWith(command.entity, <<"cap_">>)
       /\ \/ ~HasCatalogEntity(command)
          \/ CatalogEntity(command).entity_type
                \notin {"switch", "number", "select", "text"}
          \/ /\ CatalogEntity(command).entity_type = "select"
             /\ ~IsDisplayName(CatalogEntity(command), command.payload)

\* C6: a command rejected at translation time causes no vendor API call,
\* neither a mutation request nor a state refresh, and the mutation request of
\* a select command carries the value of the option the payload names.
C6_RejectedCommandMakesNoCall ==
    /\ (cur # NoCmd /\ RejectedAtTranslation(cur))
          => (calls = <<>> /\ pending = <<>> /\ pc \notin {"control", "refresh"})
    /\ (cur # NoCmd /\ HasCatalogEntity(cur))
          => \A k \in 1..Len(calls) :
                (calls[k].op = "control_device"
                    /\ CatalogEntity(cur).entity_type = "select")
                => \E j \in 1..Len(CatalogEntity(cur).option_values) :
                      /\ CatalogEntity(cur).option_values[j].name = cur.payload
                      /\ CatalogEntity(cur).option_values[j].value = calls[k].value

\* _handle_command has returned from a select command whose payload names no
\* option, with no vendor API call made
C6_Witness ==
    /\ pc = "drain"
    /\ cur # NoCmd
    /\ HasCatalogEntity(cur)
    /\ CatalogEntity(cur).entity_type = "select"
    /\ cur.payload = <<"Moonrise">>
    /\ calls = <<>>

ExcludedAtStartup(device) ==
    \/ device.capabilities = <<>>
    \/ /\ device.device_type # <<>>
       /\ \/ Contains(Lower(device.device_type), <<"g", "r", "o", "u", "p">>)
          \/ Contains(Lower(device.device_type), <<"s", "c", "e", "n", "e">>)
    \/ device.sku # <<>> /\ Upper(device.sku)[1] # "H"

C11_NoCommandLost ==
    interrupted # NoInterrupt
        => /\ interrupted.queued = {}
           /\ interrupted.handling = 0

\* the devices a single sweep fetches: those main() did not exclude at startup,
\* in device-list order
SweepOrder ==
    LET ids == [k \in 1..Len(devices) |-> devices[k].device]
    IN  SelectSeq(ids, LAMBDA id : id \notin InitialUnsupported(devices))

\* C12: in single-pass mode, when no vendor API call failed to return, the loop
\* has ended after exactly one sweep in which every device outside the
\* unsupported set got exactly one scheduled fetch, in device-list order; no
\* second sweep starts and no end-of-sweep sleep is taken.
C12_SinglePassOneSweep ==
    once =>
        /\ pc # "sweep_sleep"
        /\ sweep <= 1
        /\ (pc = "exited" /\ exc # "TransportError")
              => /\ sweep = 1
                 /\ polled = SweepOrder

\* the state the vendor API answers for a device
AnsweredState(device) == CHOOSE state \in LoopStates : state.device = device.device

\* state has a value for one of the instances
HasValueFor(state, instances) ==
    \E k \in 1..Len(state.capabilities) :
        /\ state.capabilities[k].instance \in instances
        /\ state.capabilities[k].state_value # VNull

\* the state topics of the entities of device that have a value in state
ValuedEntityTopics(device, state) ==
    LET slug == device_slug(device)
        catalog == capability_map[device.device]
    IN  { RuntimeTopic(BaseTopic, slug, <<"light">>, "state") :
            x \in {y \in {1} : is_light(device)
                                  /\ HasValueFor(state, LightStateInstances)} }
        \cup
        { RuntimeTopic(BaseTopic, slug, <<"switch">>, "state") :
            x \in {y \in {1} : ~is_light(device) /\ is_switch(device)
                                  /\ HasValueFor(state, {"powerSwitch"})} }
        \cup
        { RuntimeTopic(BaseTopic, slug, CapSuffix(inst), "state") :
            inst \in {n \in DOMAIN catalog : HasValueFor(state, {n})} }

PublishedTopics == {bus_out[k].topic : k \in 1..Len(bus_out)}

CallsOf(op) == {k \in 1..Len(calls) : calls[k].op = op}

\* C13: when the handling of a command that had a successful mutation request
\* is over (before the next command is dequeued), exactly one state refresh was
\* issued, after the mutation requests, every call was for the command's own
\* device, and a successful refresh republished the state of every entity of
\* the device that has a value in the refreshed state.
C13_RefreshAfterMutation ==
    (/\ pc = "drain"
     /\ cur # NoCmd
     /\ \E k \in CallsOf("control_device") : calls[k].ok)
        => LET device == device_map[cur.device_id]
           IN  /\ CallsOf("get_device_state") = {Len(calls)}
               /\ \A k \in 1..Len(calls) : calls[k].device = device.device
               /\ calls[Len(calls)].ok
                     => ValuedEntityTopics(device, AnsweredState(device))
                           \subseteq PublishedTopics

\* the select command Sunrise for the lamp's scene succeeded and the refresh
\* republished the light and the volume entity as well
C13_Witness ==
    /\ pc = "drain"
    /\ cur.entity = <<"cap_", "lightScene">>
    /\ Len(calls) = 2
    /\ calls[1].op = "control_device" /\ calls[1].ok
    /\ calls[2].op = "get_device_state" /\ calls[2].ok
    /\ {RuntimeTopic(BaseTopic, cur.device_id, <<"light">>, "state"),
        RuntimeTopic(BaseTopic, cur.device_id, CapSuffix("volume"), "state"),
        RuntimeTopic(BaseTopic, cur.device_id, CapSuffix("lightScene"), "state")}
          \subseteq PublishedTopics

\* C14: no state fetch is issued for a device that is in the unsupported set,
\* neither the scheduled fetch of a sweep nor the state refresh that follows a
\* command addressed to the device.
C14_NoFetchOnceUnsupported ==
    /\ pc = "fetch" => devices[i].device \notin unsupported_state_devices
    /\ \A k \in CallsOf("get_device_state") :
          calls[k].device \notin unsupported_state_devices

\* the instance whose value the entity of an advertisement shows
ProbeInstance(adv) ==
    IF adv.suffix = <<"light">> THEN "brightness"
    ELSE IF adv.suffix = <<"switch">> THEN "powerSwitch"
    ELSE adv.suffix[2]

\* a device state in which only the entity of the advertisement has a value
ProbeState(adv) == DeviceState(adv.device, <<StateCap(ProbeInstance(adv), VInt(1))>>)

AdvertisedDevice(adv) ==
    devices[CHOOSE k \in 1..Len(devices) : devices[k].device = adv.device]

\* C15: for every advertisement of a device, the descriptor's state topic is
\* the topic _publish_state writes that entity's value to, a sensor has no
\* command topic, and the command topic of a light, switch or capability
\* entity is <base_topic>/<slug>/<entity>/set with an entity suffix that
\* _handle_command routes to that same entity of that same device.
C15_TopicsAgree ==
    \A k \in 1..Len(advertised) :
        LET adv == advertised[k]
            device == AdvertisedDevice(adv)
            sent == _publish_state(BaseTopic, device, ProbeState(adv),
                                   capability_map, capability_options)
        IN  /\ sent # <<>>
            /\ \A j \in 1..Len(sent) : sent[j].topic = adv.state_topic
            /\ IF adv.suffix[1] = "sensor"
               THEN adv.command_topic = NoTopic
               ELSE /\ adv.command_topic =
                         RuntimeTopic(BaseTopic, device_slug(device), adv.suffix, "set")
                    /\ Route(CommandOfTopic(adv.command_topic, <<"ON">>))
                         = [device |-> adv.device, entity |-> adv.suffix]

\* a light with a sensor and a generic entity has been advertised
C15_Witness ==
    /\ Len(advertised) = 3
    /\ advertised[1].suffix = <<"light">>
    /\ advertised[2].suffix = <<"sensor", "temperature">>
    /\ advertised[3].suffix = <<"cap_", "volume">>

\* _publish_discovery has run
DiscoveryPublished == ~dry_run /\ pc \notin {"startup", "built"}

CapabilityAdvertisements ==
    SelectSeq(advertised, LAMBDA adv : adv.suffix[1] = "cap_")

\* C16: capability_discovery_payloads returns one advertisement per entity it
\* is given, in the same order; the discovery topic of each is
\* homeassistant/<entity_type>/<slug>_cap_<instance>/config with the entity's
\* own kind (switch, number, select or text), and the descriptor's object_id
\* is the non-empty <slug>_cap_<instance>.
C16_OneAdvertisementPerEntity ==
    DiscoveryPublished =>
        LET entities == CatalogValues(devices[1], capability_map)
            slug == device_slug(devices[1])
            out == CapabilityAdvertisements
        IN  /\ Len(out) = Len(entities)
            /\ \A k \in 1..Len(entities) :
                  /\ entities[k].entity_type \in {"switch", "number", "select", "text"}
                  /\ out[k].topic =
                        <<"homeassistant", entities[k].entity_type,
                          <<slug, "_cap_", entities[k].instance>>, "config">>
                  /\ out[k].object_id = <<slug, "_cap_", entities[k].instance>>
                  /\ out[k].object_id # <<>>

\* two generic entities of different kinds were advertised, in catalog order
C16_Witness ==
    /\ DiscoveryPublished
    /\ Len(CapabilityAdvertisements) = 2
    /\ CapabilityAdvertisements[1].kind = "select"
    /\ CapabilityAdvertisements[2].kind = "number"

BusEvents == {"MqttClient", "set_command_handler", "connect", "disconnect"}

PassingCaps(device) ==
    LET excluded == {pair[2] : pair \in ExcludeSet(device)}
    IN  SelectSeq(device.capabilities, LAMBDA cap : cap.instance \notin excluded)

CommandOptionTable ==
    capability_options[device_map[cur.device_id].device][CapInstance(cur.entity)]
        .name_to_value

\* the handling of a select command naming an option of the table is over
KnownOptionHandled ==
    /\ pc = "drain"
    /\ cur # NoCmd
    /\ cur.payload \in DOMAIN CommandOptionTable

\* C19: a select command whose payload is the name of an option of the
\* entity's option table produces exactly one mutation request, carrying that
\* option's raw value, whatever the raw value is.
C19_KnownOptionSendsRawValue ==
    KnownOptionHandled =>
        /\ CallsOf("control_device") = {1}
        /\ calls[1].instance = CapInstance(cur.entity)
        /\ calls[1].value = CommandOptionTable[cur.payload]

\* the messages of bus_out on the state topic of the generic entity of instance
PublishedOn(instance) ==
    SelectSeq(bus_out,
              LAMBDA pub : pub.topic = RuntimeTopic(BaseTopic, device_slug(devices[1]),
                                                    CapSuffix(instance), "state"))

\* a raw state value that is the raw value of no option of the select entity
MatchesNoOption(entity, value) ==
    \A k \in 1..Len(entity.option_values) :
        entity.option_values[k].name # None => entity.option_values[k].value # value

\* C20: when a device state has been published, each capability of the state
\* whose instance is in the device's catalog has a message on
\* cap_<instance>/state if and only if its state value is not None, and a
\* select entity whose raw value matches no option has the string rendering of
\* the raw value published.
C20_PublishedIffValue ==
    answered # NoState =>
        LET catalog == capability_map[devices[1].device]
        IN  \A k \in 1..Len(answered.capabilities) :
                LET cap == answered.capabilities[k]
                IN  cap.instance \in DOMAIN catalog =>
                        /\ PublishedOn(cap.instance) # <<>> <=> cap.state_value # VNull
                        /\ (/\ catalog[cap.instance].entity_type = "select"
                            /\ cap.state_value # VNull
                            /\ MatchesNoOption(catalog[cap.instance], cap.state_value))
                              => /\ Len(PublishedOn(cap.instance)) = 1
                                 /\ PublishedOn(cap.instance)[1].payload
                                       = VStr(PyStr(cap.state_value))

\* a scheduled fetch answered a scene value that is no option of the non-empty
\* option list and the volume 0: the scene's string rendering and the volume
\* were published
C20_Witness ==
    /\ pc = "pace"
    /\ answered.capabilities[1].state_value = VObj(<<<<"id", 2>>>>)
    /\ answered.capabilities[2].state_value = VInt(0)
    /\ capability_map[devices[1].device]["lightScene"].option_values # <<>>
    /\ PublishedOn("lightScene")[1].payload = VStr(<<"{", "'", "id", "'", ": ", "2", "}">>)
    /\ PublishedOn("volume")[1].payload = VInt(0)

\* the capabilities of the merged device before and after the last call of
\* _merge_scene_options, and the scene capabilities it was given
MergedBefore == merge.before.capabilities
MergedAfter == devices[merge.at].capabilities
MergedFrom == merge.scene_caps

\* the scene capabilities of the last merge that match capability k
MatchingScenes(k) ==
    {j \in 1..Len(MergedFrom) : SameCapability(MergedBefore[k], MergedFrom[j])}

\* those of them that carry options
OptionScenes(k) ==
    {j \in MatchingScenes(k) : MergedFrom[j].parameters.options # <<>>}

\* a merge changes neither the number nor the identity of the capabilities,
\* keeps every data type that was there, and leaves alone what nothing matches
MergeKeepsKeys ==
    /\ Len(MergedAfter) = Len(MergedBefore)
    /\ \A k \in 1..Len(MergedBefore) :
          /\ MergedAfter[k].type = MergedBefore[k].type
          /\ MergedAfter[k].instance = MergedBefore[k].instance
          /\ MergedBefore[k].parameters.dataType # ""
                => MergedAfter[k].parameters.dataType =
                       MergedBefore[k].parameters.dataType
          /\ MatchingScenes(k) = {} => MergedAfter[k] = MergedBefore[k]

\* C21 as stated: a merge is additive, it keeps every existing key but
\* options, leaves unmatched capabilities alone, and gives a device
\* capability the options list of every scene capability that matches it
C21_OptionsOfEveryMatch ==
    merge.at # 0
        => /\ MergeKeepsKeys
           /\ \A k \in 1..Len(MergedBefore) : \A j \in MatchingScenes(k) :
                 MergedAfter[k].parameters.options =
                     MergedFrom[j].parameters.options

\* the last scene capability with options that matches capability k
LastOptionScene(k) ==
    CHOOSE j \in OptionScenes(k) : \A other \in OptionScenes(k) : other <= j

\* C21, amended: a merge keeps every existing key but options and leaves alone
\* the capabilities that no scene capability with options matches; a
\* capability that such scene capabilities match gets the options list of
\* the last of them
C21_OptionsOfLastMatchWithOptions ==
    merge.at # 0
        => /\ MergeKeepsKeys
           /\ \A k \in 1..Len(MergedBefore) :
                 IF OptionScenes(k) = {}
                 THEN MergedAfter[k] = MergedBefore[k]
                 ELSE MergedAfter[k].parameters.options =
                          MergedFrom[LastOptionScene(k)].parameters.options

\* a merge where a capability with a data type and options is matched by two
\* scene capabilities that carry different options and by one without
\* options, and has got new options
C21_Witness ==
    /\ merge.at # 0
    /\ \E k \in 1..Len(MergedBefore) :
          /\ MergedBefore[k].parameters.dataType # ""
          /\ MergedBefore[k].parameters.options # <<>>
          /\ MergedAfter[k].parameters.options # MergedBefore[k].parameters.options
          /\ \E j \in OptionScenes(k) :
                /\ MergedFrom[j].parameters.dataType #
                       MergedBefore[k].parameters.dataType
                /\ j # LastOptionScene(k)
                /\ MergedFrom[j].parameters.options # MergedAfter[k].parameters.options

\* a sleep between two devices lasts poll_interval / len(devices) seconds and
\* at least 1 second
PaceSleepRight ==
    slept.at = "device"
        => /\ ~FracLess(slept.seconds, Frac(1, 1))
           /\ IF poll_interval >= Len(devices)
              THEN slept.seconds[1] * Len(devices) = poll_interval * slept.seconds[2]
              ELSE slept.seconds[1] = slept.seconds[2]

\* a sleep after a sweep lasts poll_interval - elapsed seconds, and there is
\* none when that is not positive
SweepSleepRight ==
    /\ slept.at = "sweep"
          => /\ FracLess(NoTime, slept.seconds)
             /\ FracEq(FracAdd(slept.seconds, elapsed), Frac(poll_interval, 1))
    /\ pc = "sweep_start" /\ sweep > 0 /\ slept.at = ""
          => ~FracLess(elapsed, Frac(poll_interval, 1))

\* C22: after every scheduled state fetch the loop sleeps poll_interval /
\* device count seconds, at least 1, before it moves to the next device, and
\* after the sweep it sleeps poll_interval - elapsed seconds, never a
\* negative time
C22_PacedAfterEveryFetch ==
    /\ lastFetch # NoFetch => pc = "pace"
    /\ PaceSleepRight
    /\ SweepSleepRight

\* a step of the bus client's callback: it appends one command to the queue
\* and touches nothing else of the program
CallbackStep ==
    /\ Len(command_queue') = Len(command_queue) + 1
    /\ SubSeq(command_queue', 1, Len(command_queue)) = command_queue
    /\ UNCHANGED <<calls, bus_out, unsupported_state_devices, capability_map,
                   capability_options, devices, device_map, pc, i, cur, pending,
                   handled, lifecycle>>

\* a step that takes a command off the queue: the loop's get(), on a queue
\* that is not empty, of the oldest command
DequeueStep ==
    /\ pc = "get"
    /\ command_queue # <<>>
    /\ command_queue' = Tail(command_queue)
    /\ cur' = Head(command_queue)
    /\ nEnqueued' = nEnqueued

\* C23: the callback only appends to the queue, the loop is the only one that
\* removes from it, and between the loop's observation of a non-empty queue
\* and its get() the queue stays non-empty, so get() never blocks
C23_CallbackOnlyEnqueues ==
    /\ [](pc = "get" => command_queue # <<>>)
    /\ [][/\ nEnqueued' # nEnqueued => CallbackStep
          /\ command_queue' # command_queue
                => \/ nEnqueued' # nEnqueued /\ CallbackStep
                   \/ DequeueStep]_vars

\* the loop has dequeued a command, the callback has appended another one
\* since, and the loop has seen the queue non-empty and is about to get()
C23_Witness ==
    /\ pc = "get"
    /\ handled # <<>>
    /\ command_queue # <<>>
    /\ nEnqueued = Len(handled) + Len(command_queue)

\* command id has been dequeued and its _handle_command call is over
HandledCommand(id) ==
    /\ \E k \in 1..Len(handled) : handled[k] = id
    /\ cur.id = id => pc \notin {"handle", "control", "refresh"}

\* C24: in continuous mode, when every vendor API call answers and no
\* interrupt arrives, every command put on the queue is eventually dequeued
\* and handled, for every device list, the empty one included
C24_EveryCommandHandled ==
    \A id \in 1..MaxCmds : (nEnqueued >= id) ~> HandledCommand(id)

\* the mutation requests that the translation of the current command asks for
TranslatedMutations == Translate(cur).muts

\* call k of the log is the mutation request for mutation m of the command
IsControlCall(k, m) ==
    /\ calls[k].op = "control_device"
    /\ calls[k].device = device_map[cur.device_id].device
    /\ calls[k].capability_type = m.capability_type
    /\ calls[k].instance = m.instance
    /\ calls[k].value = m.value

\* C25: when the handling of a command that passed translation is over, the
\* vendor calls made for it are one mutation request for each of its
\* mutations, in order and whatever the answers to the earlier ones, followed
\* by exactly one state refresh for its device; at no time is there more than
\* one refresh, or one before a mutation request
C25_OneRefreshAfterAllMutations ==
    /\ Cardinality(CallsOf("get_device_state")) <= 1
    /\ CallsOf("get_device_state") \subseteq {Len(calls)}
    /\ cur # NoCmd /\ pc = AfterCommand /\ Translate(cur).outcome = "proceed"
          => /\ Len(calls) = Len(TranslatedMutations) + 1
             /\ \A k \in 1..Len(TranslatedMutations) :
                   IsControlCall(k, TranslatedMutations[k])
             /\ calls[Len(calls)].op = "get_device_state"
             /\ calls[Len(calls)].device = device_map[cur.device_id].device

\* the handling of a light command with two mutations is over: the first
\* request was answered with an HTTP status error, the second was made, and
\* the refresh followed
C25_Witness ==
    /\ cur # NoCmd
    /\ pc = AfterCommand
    /\ cur.entity = <<"light">>
    /\ Len(calls) = 3
    /\ ~calls[1].ok
    /\ calls[2].op = "control_device"
    /\ calls[3].op = "get_device_state"

\* the positions of the lifecycle log that hold call
LifecycleCalls(call) == {k \in 1..Len(lifecycle) : lifecycle[k] = call}

\* the bus client was connected
BusConnected == LifecycleCalls("connect") # {}

\* the two clients were released: one disconnect and then one close, as the
\* last two calls
Released ==
    /\ Len(lifecycle) >= 2
    /\ LifecycleCalls("disconnect") = {Len(lifecycle) - 1}
    /\ LifecycleCalls("close") = {Len(lifecycle)}

\* C26: the loop is left only through the finally block, which disconnects
\* the bus client and then closes the vendor API client, each once; before
\* that neither is released, and after it no poll, command handling, publish
\* or client call happens
C26_ReleasedOnceInOrder ==
    /\ [](BusConnected =>
             /\ pc = "exited" => Released
             /\ pc # "exited" =>
                   LifecycleCalls("disconnect") \cup LifecycleCalls("close") = {})
    /\ [][/\ pc \in LoopPositions /\ pc' \notin LoopPositions => pc' = "finally"
          /\ pc = "finally" /\ pc' # pc =>
                /\ pc' = "exited"
                /\ lifecycle' = lifecycle \o <<"disconnect", "close">>
          /\ pc \in {"finally", "exited"} =>
                UNCHANGED <<polled, lastFetch, calls, handled, cur, bus_out,
                            unsupported_state_devices>>
          /\ pc = "exited" => UNCHANGED lifecycle]_vars

\* main() has ended after a KeyboardInterrupt that hit the loop when a
\* device had been polled and a command handled, with both clients released
C26_Witness ==
    /\ pc = "exited"
    /\ exc = "KeyboardInterrupt"
    /\ polled # <<>>
    /\ handled # <<>>
    /\ lifecycle = ClientsConnected \o <<"disconnect", "close">>

====
